---- MODULE Spec2Model ----
(***************************************************************************)
(* A model of the ops CLI (luzmcosta/ops): the step runner runSteps, the   *)
(* two step sequences setup and setupFirebase, the five step functions and *)
(* the providers they delegate to (registry file, gcloud, firebase, login, *)
(* token prompt, npm).                                                     *)
(*                                                                         *)
(* JavaScript objects live in `heap`: a reference is an index into it, a   *)
(* Result is a record that holds exactly the fields the object has, and an *)
(* assignment to a field replaces the record at that index.  Every         *)
(* invocation of a step has its own entry in `invoked` and `st`, so that   *)
(* a runner that did not wait for a step would show two steps in progress. *)
(***************************************************************************)
EXTENDS Integers, Sequences, FiniteSets, TLC

VARIABLES
  cmd,       \* the entry point in use: "none", "setup", "firebase", "runSteps"
  file,      \* text of <directory>/.firebaserc on disk, or Absent
  nodeEnv,   \* shelljs.env['NODE_ENV']
  heap,      \* the objects; heap[OptionsRef] is the options object
  steps,     \* the steps array handed to runSteps (shifted in place)
  pc,        \* position of the runner / the CLI process
  invoked,   \* invocations of step functions by runSteps, in order
  st,        \* st[i]: position, locals and outcome of invocation i
  returned,  \* Results that step promises resolved with, as they were then
  calls,     \* calls to providers, in order
  answers,   \* what the providers answered, in order
  log,       \* logger emissions, in order
  result,    \* <<reference>> runSteps resolved with, <<>> before
  exitCode,  \* <<exit code>> of the CLI process, <<>> while it runs
  validations, \* calls of runValidators, in order, with the validators invoked
  produced,  \* Results the sub-steps of the two configure functions produced
  given,     \* what the process was started with, and the options made of it
  first,     \* <<what the first run did>> once the command is run again
  proc       \* <<the exec call under way>> with its subprocess, <<>> if none

vars == <<cmd, file, nodeEnv, heap, steps, pc, invoked, st, returned, calls,
          answers, log, result, exitCode, validations, produced, given, first,
          proc>>

----------------------------------------------------------------------------
(* Bounds *)

\* longest sequence of caller-supplied steps given to runSteps
MaxSteps == 3

\* longest list of caller-supplied validators given to runValidators
MaxValidators == 3

\* the most events one subprocess emits
MaxEvents == 3

----------------------------------------------------------------------------
(* JavaScript values *)

Str(s) == [type |-> "string", val |-> s]
Undefined == [type |-> "undefined", val |-> "undefined"]
Null == [type |-> "null", val |-> "null"]
Obj(f) == [type |-> "object", val |-> f]
Arr(s) == [type |-> "array", val |-> s]
EmptyMap == [k \in {} |-> Undefined]

\* typeof v
TypeOf(v) == IF v.type \in {"null", "object", "array"} THEN "object" ELSE v.type

\* String(v), as in a template literal `${v}` or an assignment to process.env
JsString(v) == IF v.type \in {"object", "array"} THEN "[object]" ELSE v.val

\* o[f] for a field that may be missing
Get(o, f) == IF f \in DOMAIN o THEN o[f] ELSE Undefined

\* o.f = v
SetField(o, f, v) == (f :> v) @@ o

Num(n) == [type |-> "number", val |-> n]

\* the options object is the first object of a run
OptionsRef == 1
Absent == "<absent>"

\* the reference a new object gets, and the heap holding it
NewRef(h) == Len(h) + 1
Alloc(h, o) == Append(h, o)

----------------------------------------------------------------------------
(* logger *)

Emit(l, by, level, messages) ==
  Append(l, [by |-> by, level |-> level, messages |-> messages])

----------------------------------------------------------------------------
(* Caller-supplied steps: what a step function given to runSteps may do *)

Step(fn, n) == [fn |-> fn, n |-> n]

GenericResults ==
  { [error |-> FALSE],
    [error |-> FALSE, message |-> "done"],
    [error |-> TRUE],
    [error |-> TRUE, message |-> "failed"],
    [error |-> TRUE, messages |-> <<"remedy 1", "remedy 2">>],
    [error |-> TRUE, message |-> "failed", messages |-> <<"remedy 1", "remedy 2">>] }

GenericSteps(n) == [k \in 1..n |-> Step("step", k)]

\* caller-supplied validators: what a validator given to runValidators returns
GenericValidations ==
  { [error |-> FALSE, message |-> "valid 1"],
    [error |-> FALSE, message |-> "valid 2"],
    [error |-> TRUE, message |-> "invalid 1"],
    [error |-> TRUE, message |-> "invalid 2"] }

GenericSuccessResponses ==
  { [error |-> FALSE, message |-> "all valid"],
    [message |-> "all valid"] }

----------------------------------------------------------------------------
(* The inputs of one run *)

Directories == {Str("/app"), Str("")}
ProjectKeys == {Str("default"), Str("staging"), Str("")}
Envs == {Str("development"), Undefined}

\* options objects: the flags of the CLI, or the default `{}` of setup()
OptionsSet ==
  { [directory |-> d, projectKey |-> k, env |-> e] :
      d \in Directories, k \in ProjectKeys, e \in Envs } \cup {EmptyMap}

\* texts the registry file may hold
RegistryTexts ==
  { "{\"projects\":{\"default\":\"acme-prod\"}}",
    "{\"projects\":{\"default\":\"\"}}",
    "{\"projects\":{\"staging\":\"acme-staging\"}}",
    "{\"projects\":{}}",
    "{\"projects\":[\"acme-prod\"]}",
    "{}",
    "[\"acme-prod\"]",
    "null",
    "{\"projects\":" }

Files == RegistryTexts \cup {Absent}

----------------------------------------------------------------------------
(* The command line: how commander makes the options of a run *)

\* rootDir, the default of --directory
RootDir == Str("/app")

\* `OPS_NODE_ENV = 'development'` and `OPS_PROJECT_KEY = 'default'`: the
\* value of the environment variable, or the default when it is not set
NodeEnvDefault(env) ==
  IF "OPS_NODE_ENV" \in DOMAIN env THEN Str(env.OPS_NODE_ENV) ELSE Str("development")

ProjectKeyDefault(env) ==
  IF "OPS_PROJECT_KEY" \in DOMAIN env THEN Str(env.OPS_PROJECT_KEY) ELSE Str("default")

\* .option(flags, description, defaultValue): the flag if given, else the default
OptionValue(flags, name, defaultValue) ==
  IF name \in DOMAIN flags THEN Str(flags[name]) ELSE defaultValue

CommanderOptions(env, flags) ==
  [directory |-> OptionValue(flags, "directory", RootDir),
   env |-> OptionValue(flags, "env", NodeEnvDefault(env)),
   projectKey |-> OptionValue(flags, "projectKey", ProjectKeyDefault(env))]

\* environments and flags of the command line
NoStrings == [k \in {} |-> ""]
ProcessEnvs == {NoStrings, [OPS_PROJECT_KEY |-> "staging"]}
FlagSets == {NoStrings, [projectKey |-> "default"]}

\* how a run is started: by a caller of the exported functions with its own
\* options object, or from the command line
Starts ==
  { [via |-> "api", options |-> o] : o \in OptionsSet } \cup
  { [via |-> "cli", env |-> e, flags |-> f, options |-> CommanderOptions(e, f)] :
      e \in ProcessEnvs, f \in FlagSets }

----------------------------------------------------------------------------
(* Initial state: the process has started, no command has been dispatched *)

Init ==
  /\ cmd = "none"
  /\ file \in Files
  /\ nodeEnv = Str("production")
  /\ given \in Starts
  /\ heap = <<given.options>>
  /\ steps = <<>>
  /\ pc = "cli"
  /\ invoked = <<>>
  /\ st = <<>>
  /\ returned = <<>>
  /\ calls = <<>>
  /\ answers = <<>>
  /\ log = <<>>
  /\ result = <<>>
  /\ exitCode = <<>>
  /\ validations = <<>>
  /\ produced = <<>>
  /\ first = <<>>
  /\ proc = <<>>

----------------------------------------------------------------------------
(* Step sequences *)

\* (variant) a list that links the deployment project before the cloud project
SetupFirebaseStepsLinkFirst ==
  << Step("stepConfigureFirebaseProject", 0),
     Step("stepConfigureGoogle", 0),
     Step("stepFinish", 0) >>

SetupFirebaseSteps ==
  << Step("stepConfigureGoogle", 0),
     Step("stepConfigureFirebaseProject", 0),
     Step("stepFinish", 0) >>

\* (variant) a list that finishes before the package registry is configured
SetupStepsFinishEarly ==
  << Step("stepConfigureNodeEnv", 0),
     Step("stepConfigureGoogle", 0),
     Step("stepConfigureFirebaseProject", 0),
     Step("stepFinish", 0),
     Step("stepConfigureFontAwesome", 0) >>

SetupSteps ==
  << Step("stepConfigureNodeEnv", 0),
     Step("stepConfigureGoogle", 0),
     Step("stepConfigureFirebaseProject", 0),
     Step("stepConfigureFontAwesome", 0),
     Step("stepFinish", 0) >>

\* the process is idle and may run the command: no command of the process has
\* been called yet, or this command has settled and its caller calls it again
Idle(command) == pc = "cli" /\ cmd \in {"none", command}

\* (variant) a setupFirebase that runs the steps of setup
SetupFirebaseAsSetup ==
  /\ Idle("firebase")
  /\ cmd' = "firebase"
  /\ log' = Emit(log, "setupFirebase", "info", <<"Configuring Firebase ...">>)
  /\ steps' = SetupSteps
  /\ pc' = "shift"
  /\ UNCHANGED <<file, nodeEnv, heap, invoked, st, returned, calls, answers, result, exitCode,
               validations, produced, given, first, proc>>

\* setupFirebase(options): log, build the list, call runSteps
SetupFirebase ==
  /\ Idle("firebase")
  /\ cmd' = "firebase"
  /\ log' = Emit(log, "setupFirebase", "info", <<"Configuring Firebase ...">>)
  /\ steps' = SetupFirebaseSteps
  /\ pc' = "shift"
  /\ UNCHANGED <<file, nodeEnv, heap, invoked, st, returned, calls, answers, result, exitCode,
               validations, produced, given, first, proc>>

\* (variant) a setup that keeps, across its calls, that the runtime mode is set
SetupOnce ==
  /\ Idle("setup")
  /\ cmd' = "setup"
  /\ log' = Emit(log, "setup", "info", <<"Setting up the environment ...">>)
  /\ steps' = IF first = <<>> THEN SetupSteps ELSE Tail(SetupSteps)
  /\ pc' = "shift"
  /\ UNCHANGED <<file, nodeEnv, heap, invoked, st, returned, calls, answers, result, exitCode,
               validations, produced, given, first, proc>>

\* setup(options): log, build the list, call runSteps
Setup ==
  /\ Idle("setup")
  /\ cmd' = "setup"
  /\ log' = Emit(log, "setup", "info", <<"Setting up the environment ...">>)
  /\ steps' = SetupSteps
  /\ pc' = "shift"
  /\ UNCHANGED <<file, nodeEnv, heap, invoked, st, returned, calls, answers, result, exitCode,
               validations, produced, given, first, proc>>

\* a caller of the exported runSteps with its own steps
CallRunSteps ==
  /\ Idle("runSteps")
  /\ cmd' = "runSteps"
  /\ \E n \in 1..MaxSteps : steps' = GenericSteps(n)
  /\ pc' = "shift"
  /\ UNCHANGED <<file, nodeEnv, heap, invoked, st, returned, calls, answers, log, result, exitCode,
               validations, produced, given, first, proc>>

----------------------------------------------------------------------------
(* runSteps *)

\* (variant) a runner that hands each step a copy of the options
PassedOptionsCopy(h) == [ref |-> NewRef(h), heap |-> Alloc(h, h[OptionsRef])]

\* the object runSteps passes to a step: the options object itself
PassedOptions(h) == [ref |-> OptionsRef, heap |-> h]

\* (variant) a runner that does not await the step
AwaitedNot(s) == TRUE

\* `await step(options)`: the runner goes on once the step's promise settled
Awaited(s) == s.pc \in {"settled", "rejected"}

\* (variant) a runner that ignores result.error
ResultErrorIgnored(h, s) == FALSE

\* result.error as the runner reads it
ResultError(h, s) ==
  /\ s.pc = "settled"
  /\ "error" \in DOMAIN h[s.res]
  /\ h[s.res].error

\* (variant) a runner that reads the first step without removing it
ShiftedNot(q) == q

\* the steps array after `steps.shift()`
Shifted(q) == Tail(q)

\* (variant) a runner that emits the messages before the message
RunnerLogMessagesFirst(l, res) ==
  LET l1 == IF "messages" \in DOMAIN res
              THEN Emit(l, "runSteps", "log", res.messages)
              ELSE l
  IN  IF "message" \in DOMAIN res /\ res.message # ""
        THEN Emit(l1, "runSteps", "error", <<res.message>>)
        ELSE l1

\* the if (result.error) block: message at error severity, then messages
RunnerLog(l, res) ==
  LET l1 == IF "message" \in DOMAIN res /\ res.message # ""
              THEN Emit(l, "runSteps", "error", <<res.message>>)
              ELSE l
  IN  IF "messages" \in DOMAIN res
        THEN Emit(l1, "runSteps", "log", res.messages)
        ELSE l1

\* (variant) a runner that takes its step off the end: steps.pop()
RunStepsPop ==
  /\ pc = "shift"
  /\ steps # <<>>
  /\ LET p == PassedOptions(heap)
     IN  /\ invoked' = Append(invoked, [step |-> steps[Len(steps)], arg |-> p.ref])
         /\ heap' = p.heap
  /\ steps' = SubSeq(steps, 1, Len(steps) - 1)
  /\ st' = Append(st, [pc |-> "entry"])
  /\ pc' = "await"
  /\ UNCHANGED <<cmd, file, nodeEnv, returned, calls, answers, log, result, exitCode,
               validations, produced, given, first, proc>>

\* const step = steps.shift(); step(options)
RunSteps ==
  /\ pc = "shift"
  /\ steps # <<>>
  /\ LET p == PassedOptions(heap)
     IN  /\ invoked' = Append(invoked, [step |-> Head(steps), arg |-> p.ref])
         /\ heap' = p.heap
  /\ steps' = Shifted(steps)
  /\ st' = Append(st, [pc |-> "entry"])
  /\ pc' = "await"
  /\ UNCHANGED <<cmd, file, nodeEnv, returned, calls, answers, log, result, exitCode,
               validations, produced, given, first, proc>>

\* (variant) a runner that goes on whether or not a step is left
RunStepsResumeNoEnd ==
  /\ pc = "await"
  /\ LET i == Len(invoked)
         s == st[i]
     IN  /\ Awaited(s)
         /\ IF s.pc = "rejected"
              THEN /\ pc' = "rejected"
                   /\ UNCHANGED <<log, result>>
              ELSE LET error == ResultError(heap, s)
                       runNextStep == ~error
                   IN  /\ log' = IF error THEN RunnerLog(log, heap[s.res]) ELSE log
                       /\ IF runNextStep
                            THEN pc' = "shift" /\ UNCHANGED result
                            ELSE /\ pc' = "resolved"
                                 /\ result' = IF "res" \in DOMAIN s THEN <<s.res>> ELSE <<>>
  /\ UNCHANGED <<cmd, file, nodeEnv, heap, steps, invoked, st, returned, calls, answers, exitCode,
               validations, produced, given, first, proc>>

\* the rest of runSteps after the await
RunStepsResume ==
  /\ pc = "await"
  /\ LET i == Len(invoked)
         s == st[i]
     IN  /\ Awaited(s)
         /\ IF s.pc = "rejected"
              THEN /\ pc' = "rejected"
                   /\ UNCHANGED <<log, result>>
              ELSE LET error == ResultError(heap, s)
                       runNextStep == ~error /\ Len(steps) # 0
                   IN  /\ log' = IF error THEN RunnerLog(log, heap[s.res]) ELSE log
                       /\ IF runNextStep
                            THEN pc' = "shift" /\ UNCHANGED result
                            ELSE /\ pc' = "resolved"
                                 /\ result' = IF "res" \in DOMAIN s THEN <<s.res>> ELSE <<>>
  /\ UNCHANGED <<cmd, file, nodeEnv, heap, steps, invoked, st, returned, calls, answers, exitCode,
               validations, produced, given, first, proc>>

----------------------------------------------------------------------------
(* The CLI process *)

\* how the Node runtime treats a rejected promise nobody handles
RejectionModes == {"throw", "warn"}

\* no action handler sets process.exitCode or calls process.exit: the process
\* ends with 0 unless the runtime turns an unhandled rejection into a crash
ExitCodeOf(settlement, mode) ==
  IF settlement = "rejected" /\ mode = "throw" THEN 1 ELSE 0

ProcessExit ==
  /\ pc \in {"resolved", "rejected"}
  /\ cmd \in {"setup", "firebase"}
  /\ \E mode \in RejectionModes : exitCode' = <<ExitCodeOf(pc, mode)>>
  /\ pc' = "exited"
  /\ UNCHANGED <<cmd, file, nodeEnv, heap, steps, invoked, st, returned, calls, answers, log, result,
               validations, produced, given, first, proc>>

----------------------------------------------------------------------------
(* Settling the promise of invocation i *)

\* (variant) a step that empties the options object before it returns
ResolveClearingOptions(i, ref, h, locals) ==
  /\ st' = [st EXCEPT ![i] = [pc |-> "settled", res |-> ref] @@ locals]
  /\ returned' = Append(returned, [inv |-> i, ref |-> ref, value |-> h[ref]])
  /\ heap' = [h EXCEPT ![OptionsRef] = EmptyMap]

Resolve(i, ref, h, locals) ==
  /\ st' = [st EXCEPT ![i] = [pc |-> "settled", res |-> ref] @@ locals]
  /\ returned' = Append(returned, [inv |-> i, ref |-> ref, value |-> h[ref]])
  /\ heap' = h

Reject(i) ==
  /\ st' = [st EXCEPT ![i].pc = "rejected"]
  /\ UNCHANGED <<returned, heap>>

At(i, fn, where) ==
  /\ i \in 1..Len(invoked)
  /\ invoked[i].step.fn = fn
  /\ st[i].pc = where

----------------------------------------------------------------------------
(* A caller-supplied step *)

\* the call: the step throws, or hands back a promise
StepCall(i) ==
  /\ At(i, "step", "entry")
  /\ \/ Reject(i)
     \/ /\ st' = [st EXCEPT ![i].pc = "pending"]
        /\ UNCHANGED <<returned, heap>>
  /\ UNCHANGED <<cmd, file, nodeEnv, steps, pc, invoked, calls, answers, log, result, exitCode,
               validations, produced, given, first, proc>>

\* its promise settles: with a Result, or by rejecting
StepSettle(i) ==
  /\ At(i, "step", "pending")
  /\ \/ Reject(i)
     \/ \E r \in GenericResults : Resolve(i, NewRef(heap), Alloc(heap, r), st[i])
  /\ UNCHANGED <<cmd, file, nodeEnv, steps, pc, invoked, calls, answers, log, result, exitCode,
               validations, produced, given, first, proc>>

----------------------------------------------------------------------------
(* stepFinish *)

StepFinish(i) ==
  /\ At(i, "stepFinish", "entry")
  /\ log' = Emit(log, "stepFinish", "success", <<"\nThe setup is complete. Happy coding!\n">>)
  /\ Resolve(i, NewRef(heap), Alloc(heap, [error |-> FALSE]), st[i])
  /\ UNCHANGED <<cmd, file, nodeEnv, steps, pc, invoked, calls, answers, result, exitCode,
               validations, produced, given, first, proc>>

----------------------------------------------------------------------------
(* validate.js *)

\* (variant) a test that accepts the empty string
IsNonEmptyStringLax(v) == v.type = "string"

\* typeof v === 'string' && v.length > 0
IsNonEmptyString(v) == v.type = "string" /\ v.val # ""

\* a validator is a function of no arguments: fn names the function it calls
\* and arg is the value it closed over
Validator(fn, arg) == [fn |-> fn, arg |-> arg]

ValidateDirectory(directory) ==
  IF IsNonEmptyString(directory)
    THEN [error |-> FALSE, message |-> "The directory option is valid."]
    ELSE [error |-> TRUE, message |-> "The directory option is required."]

ValidateProjectKey(projectKey) ==
  IF IsNonEmptyString(projectKey)
    THEN [error |-> FALSE, message |-> "The projectKey option is valid."]
    ELSE [error |-> TRUE, message |-> "The projectKey option is required."]

ValidateProjectName(projectName) ==
  IF IsNonEmptyString(projectName)
    THEN [error |-> FALSE, message |-> "The project name is valid."]
    ELSE [error |-> TRUE, message |-> "The project name is invalid."]

\* Object.keys(v).length
ObjectKeysCount(v) ==
  CASE v.type = "object" -> Cardinality(DOMAIN v.val)
    [] v.type = "array" -> Len(v.val)
    [] OTHER -> 0

\* v[k] on a parsed JSON value
PropertyOf(v, k) ==
  IF v.type = "object" /\ k \in DOMAIN v.val THEN v.val[k] ELSE Undefined

ValidateFirebasercProjects(projects) ==
  LET haveProjects == projects.type \in {"object", "array"}
      haveValidProjectsType == haveProjects /\ projects.type # "array"
      haveDefinedProjects == haveValidProjectsType /\ ObjectKeysCount(projects) > 0
  IN  IF haveDefinedProjects
        THEN [error |-> FALSE,
              message |-> "The .firebaserc file contains a valid \"projects\" property."]
        ELSE [error |-> TRUE,
              message |-> "The .firebaserc file does not contain a valid \"projects\" property."]

ValidateParsedFirebaserc(firebaserc) ==
  LET haveFirebaserc == TypeOf(firebaserc) = "object" /\ firebaserc.type # "null"
      isValidFirebaserc == haveFirebaserc /\ ObjectKeysCount(firebaserc) > 0
  IN  IF isValidFirebaserc
        THEN [error |-> FALSE, message |-> "The .firebaserc file contains a valid object."]
        ELSE [error |-> TRUE,
              message |-> "The .firebaserc file contains an empty or invalid object."]

\* calling a validator; a caller-supplied one returns the Result it holds
InvokeValidator(v) ==
  CASE v.fn = "validateDirectory" -> ValidateDirectory(v.arg)
    [] v.fn = "validateProjectKey" -> ValidateProjectKey(v.arg)
    [] v.fn = "validateParsedFirebaserc" -> ValidateParsedFirebaserc(v.arg)
    [] v.fn = "validateFirebasercProjects" ->
         ValidateFirebasercProjects(PropertyOf(v.arg, "projects"))
    [] OTHER -> v.arg

\* (variant) a reducer that calls every validator
SkippedNever(currentResult) == FALSE

\* `currentResult?.error ? currentResult : fnValidator()`: a validator is
\* skipped once the current result is an error
Skipped(currentResult) == "error" \in DOMAIN currentResult /\ currentResult.error

\* the reduce of runValidators from the k-th validator on: acc.result is the
\* current result and acc.invoked the validators called so far, by position
RECURSIVE RunValidatorsFrom(_, _, _)
RunValidatorsFrom(validators, k, acc) ==
  IF k > Len(validators)
    THEN acc
    ELSE LET skip == Skipped(acc.result)
             res == IF skip THEN acc.result ELSE InvokeValidator(validators[k])
         IN  RunValidatorsFrom(validators, k + 1,
                               [result |-> IF res.error THEN res ELSE acc.result,
                                invoked |-> IF skip THEN acc.invoked
                                                    ELSE Append(acc.invoked, k)])

\* one call of runValidators: what it was given, which validators it called
\* and what it returned
RunValidatorsCall(validators, successResponse) ==
  LET done == RunValidatorsFrom(validators, 1,
                                [result |-> successResponse, invoked |-> <<>>])
  IN  [validators |-> validators, successResponse |-> successResponse,
       invoked |-> done.invoked, result |-> done.result]

RunValidators(validators, successResponse) ==
  RunValidatorsCall(validators, successResponse).result

\* the sequences over S of length n
RECURSIVE SeqsOf(_, _)
SeqsOf(S, n) ==
  IF n = 0
    THEN {<<>>}
    ELSE {Append(q, x) : q \in SeqsOf(S, n - 1), x \in S}

\* the entry of `validations` for a call made by invocation i (0: by a caller
\* of the exported function)
Validation(i, validators, successResponse) ==
  ("by" :> i) @@ RunValidatorsCall(validators, successResponse)

\* a caller of the exported runValidators with its own validators
CallRunValidators ==
  /\ Idle("runValidators")
  /\ cmd' = "runValidators"
  /\ \E n \in 0..MaxValidators :
       \E rs \in SeqsOf(GenericValidations, n) :
         \E successResponse \in GenericSuccessResponses :
           validations' =
             Append(validations,
                    Validation(0, [k \in 1..n |-> Validator("validator", rs[k])],
                               successResponse))
  /\ pc' = "returned"
  /\ UNCHANGED <<file, nodeEnv, heap, steps, invoked, st, returned, calls, answers, log,
                 result, exitCode, produced, given, first, proc>>

----------------------------------------------------------------------------
(* firebase.js: reading the project name from the registry file *)

FirebasercValidators(firebaserc) ==
  << Validator("validateParsedFirebaserc", firebaserc),
     Validator("validateFirebasercProjects", firebaserc) >>

FirebasercSuccess == [error |-> FALSE, message |-> "The .firebaserc JSON is valid."]

ValidateFirebaserc(firebaserc) ==
  RunValidators(FirebasercValidators(firebaserc), FirebasercSuccess)

OptionsValidators(options) ==
  << Validator("validateDirectory", Get(options, "directory")),
     Validator("validateProjectKey", Get(options, "projectKey")) >>

OptionsSuccess == [error |-> FALSE, message |-> "The options are valid."]

ValidateOptions(options) == RunValidators(OptionsValidators(options), OptionsSuccess)

\* path.join(directory, '.firebaserc')
FirebasercPath(directory) ==
  IF directory.val = "" THEN ".firebaserc" ELSE directory.val \o "/.firebaserc"

\* the file system: the registry file of the project is the only one there is
ReadFile(path, f) == IF path = "/app/.firebaserc" THEN f ELSE Absent

ReadFirebaserc(directory, f) ==
  IF directory.type # "string"
    THEN [error |-> TRUE, message |-> "The \"path\" argument must be of type string."]
    ELSE IF ReadFile(FirebasercPath(directory), f) = Absent
           THEN [error |-> TRUE, message |-> "ENOENT: no such file or directory"]
           ELSE [error |-> FALSE, firebaserc |-> ReadFile(FirebasercPath(directory), f)]

\* JSON.parse inside try/catch
ParseJson(jsonString) ==
  CASE jsonString = "{\"projects\":{\"default\":\"acme-prod\"}}" ->
         [error |-> FALSE,
          json |-> Obj("projects" :> Obj("default" :> Str("acme-prod")))]
    [] jsonString = "{\"projects\":{\"default\":\"\"}}" ->
         [error |-> FALSE, json |-> Obj("projects" :> Obj("default" :> Str("")))]
    [] jsonString = "{\"projects\":{\"staging\":\"acme-staging\"}}" ->
         [error |-> FALSE,
          json |-> Obj("projects" :> Obj("staging" :> Str("acme-staging")))]
    [] jsonString = "{\"projects\":{}}" ->
         [error |-> FALSE, json |-> Obj("projects" :> Obj(EmptyMap))]
    [] jsonString = "{\"projects\":[\"acme-prod\"]}" ->
         [error |-> FALSE, json |-> Obj("projects" :> Arr(<<Str("acme-prod")>>))]
    [] jsonString = "{}" -> [error |-> FALSE, json |-> Obj(EmptyMap)]
    [] jsonString = "[\"acme-prod\"]" ->
         [error |-> FALSE, json |-> Arr(<<Str("acme-prod")>>)]
    [] jsonString = "null" -> [error |-> FALSE, json |-> Null]
    [] OTHER -> [error |-> TRUE, message |-> "Unexpected end of JSON input"]

ParseFirebaserc(firebaserc) ==
  LET res == ParseJson(firebaserc)
  IN  IF res.error THEN res ELSE [error |-> FALSE, firebaserc |-> res.json]

GetFirebaserc(directory, f) ==
  LET res == ReadFirebaserc(directory, f)
  IN  IF res.error THEN res ELSE ParseFirebaserc(res.firebaserc)

FindProjectsInFirebaserc(firebaserc) ==
  LET validationResult == ValidateFirebaserc(firebaserc)
  IN  IF validationResult.error
        THEN validationResult
        ELSE [error |-> FALSE, projects |-> PropertyOf(firebaserc, "projects")]

\* (variant) a lookup that takes the first project whatever the key
FindProjectNameByAnyKey(projectKey, projects) ==
  LET projectName == projects.val[CHOOSE k \in DOMAIN projects.val : TRUE]
      res == ValidateProjectName(projectName)
  IN  IF res.error THEN res ELSE [error |-> FALSE, projectName |-> projectName]

\* findProjectNameByKey: projects[projectKey], validated
FindProjectNameByKey(projectKey, projects) ==
  LET projectName == PropertyOf(projects, JsString(projectKey))
      res == ValidateProjectName(projectName)
  IN  IF res.error THEN res ELSE [error |-> FALSE, projectName |-> projectName]

GetFirebasercProjects(directory, f) ==
  LET firebasercJson == GetFirebaserc(directory, f)
  IN  IF firebasercJson.error
        THEN firebasercJson
        ELSE FindProjectsInFirebaserc(firebasercJson.firebaserc)

ReadProjectNameFromFirebaserc(options, f) ==
  LET readerResult == GetFirebasercProjects(Get(options, "directory"), f)
  IN  IF readerResult.error
        THEN readerResult
        ELSE FindProjectNameByKey(Get(options, "projectKey"), readerResult.projects)

----------------------------------------------------------------------------
(* exec.js: the shell executor *)

\* what decides the promise of one exec call: the spawn function throws, or
\* the first of the subprocess' stderr-data, exit and close events arrives
\* (exit and close carry the exit code, null after a signal)
\* (stdout is what the subprocess had printed by then, stderr what it wrote)
ExecOutcomes ==
  { [event |-> "exit", code |-> Num(0), stdout |-> "out 1"],
    [event |-> "exit", code |-> Num(1), stdout |-> ""],
    [event |-> "exit", code |-> Num(1), stdout |-> "out 2"],
    [event |-> "exit", code |-> Null, stdout |-> ""],
    [event |-> "close", code |-> Null, stdout |-> ""],
    [event |-> "stderr", stdout |-> "", stderr |-> "err 1"],
    [event |-> "stderr", stdout |-> "", stderr |-> "err 2"],
    [event |-> "throw", message |-> "boom"] }

\* (variant) a response that reports the null code of a signal as 0
ExecResponseNullAsZero(o) ==
  IF o.event = "stderr"
    THEN [code |-> Num(1), stderr |-> o.stderr, stdout |-> o.stdout]
    ELSE [code |-> IF o.code = Null THEN Num(0) ELSE o.code,
          stderr |-> "", stdout |-> o.stdout]

\* the ExecResponse the promise resolves with
ExecResponse(o) ==
  IF o.event = "stderr"
    THEN [code |-> Num(1), stderr |-> o.stderr, stdout |-> o.stdout]
    ELSE [code |-> o.code, stderr |-> "", stdout |-> o.stdout]

\* `const { signal } = controller`: the signal of the module's AbortController
ModuleSignal == "controller.signal"

\* options objects of callers of exec: none, a stdio setting, an injected
\* spawn function (one that returns an event emitter with stdout and stderr),
\* the debug flag
ExecOptions ==
  { EmptyMap,
    [stdio |-> "inherit"],
    [stdio |-> "pipe"],
    [spawn |-> "injected"],
    [spawn |-> "injected", stdio |-> "inherit"],
    [spawn |-> "injected", debug |-> TRUE] }

\* mergeOptions(): { ...options, shell, signal, stdio }
MergeOptions(options) ==
  [shell |-> IF "shell" \in DOMAIN options THEN options.shell ELSE TRUE,
   signal |-> ModuleSignal,
   stdio |-> IF "stdio" \in DOMAIN options THEN options.stdio ELSE "overlapped"]
    @@ options

\* getStdioOptions(): { stdio: options.stdio }
GetStdioOptions(options) == [stdio |-> options.stdio]

\* spawnOptions = useStdioOptions ? getStdioOptions() : mergeOptions()
SpawnOptions(options) ==
  LET useStdioOptions == "stdio" \in DOMAIN options /\ options.stdio = "inherit"
  IN  IF useStdioOptions THEN GetStdioOptions(options) ELSE MergeOptions(options)

\* debug = options.verbose by default
Debug(options) ==
  IF "debug" \in DOMAIN options THEN options.debug
  ELSE IF "verbose" \in DOMAIN options THEN options.verbose ELSE FALSE

\* child_process.spawn gives the subprocess no stdout and stderr streams when
\* stdio is 'inherit': cmd.stdout is null and `cmd.stdout.on` throws
HasStreams(options, spawnOptions) ==
  "spawn" \in DOMAIN options \/ spawnOptions.stdio # "inherit"

\* (variant) a promise that takes the value of the last resolve
ResolvedLast(settled, response) == <<[kind |-> "resolved", response |-> response]>>

\* resolve(response): a promise takes the first settlement and keeps it
Resolved(settled, response) ==
  IF settled = <<>> THEN <<[kind |-> "resolved", response |-> response]>> ELSE settled

\* what the subprocess may write and the codes it may end with
StdoutData == {"out 1"}
StderrData == {"err 1"}
ExitCodes == {Num(0), Num(1)}
CloseCodes == {Num(0), Null}

ExecFrame ==
  UNCHANGED <<cmd, file, nodeEnv, heap, steps, pc, invoked, st, returned, calls, answers,
              result, exitCode, validations, produced, given, first>>

\* a caller of the exported exec, in a process started without options
\* (exec reads neither the options of a run nor the registry file): the
\* executor of the promise up to the registration of the handlers (the
\* debug line is written here without the backquotes around the command)
CallExec ==
  /\ Idle("exec")
  /\ cmd = "none"
  /\ given.options = EmptyMap /\ file = Absent
  /\ cmd' = "exec"
  /\ pc' = "exec"
  /\ \E options \in ExecOptions :
       LET command == "gcloud --version"
           spawnOptions == SpawnOptions(options)
       IN  IF HasStreams(options, spawnOptions)
             THEN /\ proc' = <<[command |-> command, options |-> options,
                                spawned |-> spawnOptions, stdout |-> "", stderr |-> "",
                                events |-> <<>>, settled |-> <<>>]>>
                  /\ log' = IF Debug(options)
                              THEN Emit(log, "exec", "log",
                                        <<"Executing " \o command \o " ...">>)
                              ELSE log
             ELSE /\ proc' = <<[command |-> command, options |-> options,
                                spawned |-> spawnOptions, stdout |-> "", stderr |-> "",
                                events |-> <<>>,
                                settled |-> <<[kind |-> "rejected", reason |-> "TypeError"]>>]>>
                  /\ UNCHANGED log
  /\ UNCHANGED <<file, nodeEnv, heap, steps, invoked, st, returned, calls, answers,
                 result, exitCode, validations, produced, given, first>>

\* the subprocess of the exec call under way can emit an event to a handler
Listening ==
  /\ pc = "exec"
  /\ proc # <<>>
  /\ HasStreams(proc[1].options, proc[1].spawned)
  /\ Len(proc[1].events) < MaxEvents

\* (variant) a response that goes on collecting what the subprocess prints
ExecStdoutDataLive ==
  /\ Listening
  /\ \E data \in StdoutData :
       /\ proc' = <<[proc[1] EXCEPT
                       !.stdout = @ \o data,
                       !.events = Append(@, [on |-> "stdout", data |-> data]),
                       !.settled = IF @ = <<>> THEN @
                                   ELSE <<[@[1] EXCEPT !.response.stdout = @ \o data]>>]>>
       /\ log' = IF Debug(proc[1].options)
                   THEN Emit(log, "exec", "info", <<"STDOUT: ", data>>)
                   ELSE log
  /\ ExecFrame

\* cmd.stdout.on('data', ...)
ExecStdoutData ==
  /\ Listening
  /\ \E data \in StdoutData :
       /\ proc' = <<[proc[1] EXCEPT
                       !.stdout = @ \o data,
                       !.events = Append(@, [on |-> "stdout", data |-> data])]>>
       /\ log' = IF Debug(proc[1].options)
                   THEN Emit(log, "exec", "info", <<"STDOUT: ", data>>)
                   ELSE log
  /\ ExecFrame

\* cmd.stderr.on('data', ...)
ExecStderrData ==
  /\ Listening
  /\ \E data \in StderrData :
       /\ proc' = <<[proc[1] EXCEPT
                       !.stderr = @ \o data,
                       !.events = Append(@, [on |-> "stderr", data |-> data]),
                       !.settled = Resolved(@, [code |-> Num(1),
                                                 stderr |-> proc[1].stderr \o data,
                                                 stdout |-> proc[1].stdout])]>>
       /\ log' = IF Debug(proc[1].options)
                   THEN Emit(log, "exec", "error", <<"STDERR: " \o data>>)
                   ELSE log
  /\ ExecFrame

\* cmd.on('exit', ...)
ExecExit ==
  /\ Listening
  /\ \E code \in ExitCodes :
       proc' = <<[proc[1] EXCEPT
                    !.events = Append(@, [on |-> "exit", code |-> code]),
                    !.settled = Resolved(@, [code |-> code, stderr |-> proc[1].stderr,
                                              stdout |-> proc[1].stdout])]>>
  /\ UNCHANGED log
  /\ ExecFrame

\* cmd.on('close', ...)
ExecClose ==
  /\ Listening
  /\ \E code \in CloseCodes :
       proc' = <<[proc[1] EXCEPT
                    !.events = Append(@, [on |-> "close", code |-> code]),
                    !.settled = Resolved(@, [code |-> code, stderr |-> proc[1].stderr,
                                              stdout |-> proc[1].stdout])]>>
  /\ UNCHANGED log
  /\ ExecFrame

\* (variant) a test that takes every code for 0
NonZeroNever(code) == FALSE

\* code !== 0
NonZero(code) == ~(code.type = "number" /\ code.val = 0)

\* (variant) every provider call is made twice
CallTwice(c, i, provider, arg) ==
  c \o << [by |-> i, provider |-> provider, arg |-> arg],
          [by |-> i, provider |-> provider, arg |-> arg] >>

\* the provider call invocation i makes, put on the record of the calls
Call(c, i, provider, arg) ==
  Append(c, [by |-> i, provider |-> provider, arg |-> arg])

Answer(a, i, provider, outcome) ==
  Append(a, [by |-> i, provider |-> provider, outcome |-> outcome])

\* the provider does now what it did at answer a of the first run: the
\* subprocess ends the same way (the same event with the same code) whatever
\* it prints, the prompt and the login answer the same
SameBehaviour(a, o) ==
  IF a.provider = "exec"
    THEN /\ a.outcome.event = o.event
         /\ o.event \in {"exit", "close"} => a.outcome.code = o.code
         /\ o.event = "throw" => a.outcome = o
    ELSE a.outcome = o

\* the user enters a token at the prompt of both runs, maybe another one
TokenEntered(a, o) ==
  /\ a.provider = "prompt"
  /\ a.outcome.kind = "resolve" /\ o.kind = "resolve"
  /\ "token" \in DOMAIN a.outcome.response /\ a.outcome.response.token # ""
  /\ "token" \in DOMAIN o.response /\ o.response.token # ""

\* the second run repeats answer a of the first
Repeats(a, o) == SameBehaviour(a, o) \/ TokenEntered(a, o)

\* what a provider may answer to the call under way: anything it can do in a
\* first run; in the run that repeats it, what it did at the same place
Offered(provider, outcomes) ==
  IF first = <<>> \/ Len(answers) >= Len(first[1].answers)
    THEN outcomes
    ELSE LET a == first[1].answers[Len(answers) + 1]
         IN  IF a.provider # provider
               THEN outcomes
               ELSE {o \in outcomes : Repeats(a, o)}

\* what the step function got from the function it awaited
Got(h, ref) == [ref |-> ref, value |-> h[ref]]

----------------------------------------------------------------------------
(* What no step function touches: the runner's and the process' own state *)

StepFrame == UNCHANGED <<cmd, file, steps, pc, invoked, result, exitCode, given, first, proc>>

\* the options object as invocation i sees it
OptionsOf(i) == heap[invoked[i].arg]

----------------------------------------------------------------------------
(* stepConfigureNodeEnv *)

\* a === b
StrictEqual(a, b) == a.type = b.type /\ a.val = b.val

\* (variant) an environment that ignores the assignment
EnvAssignIgnored(v) == Str("production")

\* shelljs.env is process.env, which stores every value as a string
EnvAssign(v) == Str(JsString(v))

\* configureNodeEnv(env): the value NODE_ENV holds afterwards and the Result
ConfigureNodeEnv(env) ==
  [nodeEnv |-> EnvAssign(env),
   result |-> [error |-> ~StrictEqual(EnvAssign(env), env)]]

NodeEnvMessages(env) ==
  << "Failed to set the NODE_ENV environment variable to " \o JsString(env) \o ".\n",
     "- Confirm the OPS_NODE_ENV env var in the .env file or the env option on the command line.\n",
     "- Ensure the env option is set to a valid and desirable value.\n" >>

\* (variant) a failure branch that attaches nothing
NodeEnvFailureBare(res, env) == res

\* the failure branch of stepConfigureNodeEnv: result.messages = [...]
NodeEnvFailure(res, env) == SetField(res, "messages", NodeEnvMessages(env))

StepConfigureNodeEnv(i) ==
  /\ At(i, "stepConfigureNodeEnv", "entry")
  /\ LET env == Get(OptionsOf(i), "env")
         l0 == Emit(log, "stepConfigureNodeEnv", "info",
                    <<"Configuring the NODE_ENV environment variable to "
                        \o JsString(env) \o " ...">>)
         done == ConfigureNodeEnv(env)
     IN  /\ nodeEnv' = done.nodeEnv
         /\ IF done.result.error
              THEN /\ log' = l0
                   /\ Resolve(i, NewRef(heap),
                              Alloc(heap, NodeEnvFailure(done.result, env)),
                              st[i])
              ELSE /\ log' = Emit(Emit(l0, "stepConfigureNodeEnv", "log",
                                       <<"NODE_ENV is set to " \o JsString(env) \o ".">>),
                                  "stepConfigureNodeEnv", "success",
                                  <<"The environment is ready.">>)
                   /\ Resolve(i, NewRef(heap), Alloc(heap, done.result), st[i])
  /\ UNCHANGED <<calls, answers, validations, produced>>
  /\ StepFrame

----------------------------------------------------------------------------
(* gcloud.js and stepConfigureGoogle *)

ValidateGoogleProjectName(projectName) ==
  IF IsNonEmptyString(projectName)
    THEN [error |-> FALSE, message |-> "The Google Cloud project name is valid."]
    ELSE [error |-> TRUE, message |-> "The Google Cloud project name is invalid."]

\* (variant) a command without the flag
GcloudCommandNoFlag(projectName) ==
  "gcloud config set project " \o JsString(projectName)

GcloudCommand(projectName) ==
  "gcloud config set project " \o JsString(projectName) \o " --no-user-output-enabled"

\* (variant) a failure whose message is what the command wrote to stderr
SetGoogleCloudProjectEcho(projectName, response) ==
  IF NonZero(response.code)
    THEN [error |-> TRUE, message |-> response.stderr]
    ELSE [error |-> FALSE,
          message |-> "The Google Cloud project has been set to \""
                        \o JsString(projectName) \o "\"."]

\* setGoogleCloudProject, given what the executable answered
SetGoogleCloudProject(projectName, response) ==
  IF NonZero(response.code)
    THEN [error |-> TRUE,
          message |-> "Failed to set the Google Cloud project to \""
                        \o JsString(projectName) \o "\"."]
    ELSE [error |-> FALSE,
          message |-> "The Google Cloud project has been set to \""
                        \o JsString(projectName) \o "\"."]

GoogleMessages(options) ==
  << "Failed to configure Google Cloud using \""
       \o JsString(Get(options, "projectKey")) \o "\" as the projectKey.\n",
     "  1. Review the OPS_PROJECT_KEY env var in the .env file or the \"projectKey\" flag on the command line.\n",
     "     Ensure the project key is set to a valid and desirable value.\n\n",
     "  2. Ensure the .firebaserc file has a property for the corresponding project key.\n",
     "     Ensure the project name in the .firebaserc file is set to a valid and desirable value.\n\n",
     "  3. Ensure your gcloud user has access to the project referenced in the .firebaserc file.\n",
     "     Run \"gcloud auth list\" to review your auth state.\n" >>

\* the end of stepConfigureGoogle: `if (result.error) ... return result`
GoogleReturn(i, l, h, ref) ==
  IF h[ref].error
    THEN /\ log' = l
         /\ Resolve(i, ref,
                    [h EXCEPT ![ref] = SetField(@, "messages", GoogleMessages(OptionsOf(i)))],
                    SetField(st[i], "got", Got(h, ref)))
    ELSE /\ log' = Emit(l, "stepConfigureGoogle", "success", <<"Google Cloud is ready.">>)
         /\ Resolve(i, ref, h, SetField(st[i], "got", Got(h, ref)))

\* stepConfigureGoogle from the answer of the reader to the call of the parser
GoogleAfterReader(i, l, projectNameResult) ==
  LET projectName == IF "projectName" \in DOMAIN projectNameResult
                       THEN projectNameResult.projectName
                       ELSE Undefined
      l1 == Emit(l, "stepConfigureGoogle", "log",
                 <<"Setting the Google Cloud project to \""
                     \o JsString(projectName) \o "\" ...">>)
      validationResult == ValidateGoogleProjectName(projectName)
  IN  IF projectNameResult.error
        THEN /\ GoogleReturn(i, l1, Alloc(heap, projectNameResult), NewRef(heap))
             /\ UNCHANGED calls
        ELSE IF validationResult.error
               THEN /\ GoogleReturn(i, l1, Alloc(heap, validationResult), NewRef(heap))
                    /\ UNCHANGED calls
               ELSE /\ calls' = Call(calls, i, "exec", GcloudCommand(projectName))
                    /\ st' = [st EXCEPT ![i] = [pc |-> "gcloud", projectName |-> projectName]]
                    /\ log' = l1
                    /\ UNCHANGED <<heap, returned>>

\* the call: getProjectName validates the options and starts reading the file
StepConfigureGoogle(i) ==
  /\ At(i, "stepConfigureGoogle", "entry")
  /\ LET options == OptionsOf(i)
         l0 == Emit(log, "stepConfigureGoogle", "info", <<"Configuring Google Cloud ...">>)
         validation == ValidateOptions(options)
     IN  /\ validations' = Append(validations,
                                  Validation(i, OptionsValidators(options), OptionsSuccess))
         /\ IF validation.error
              THEN GoogleAfterReader(i, l0, validation)
              ELSE /\ calls' = Call(calls, i, "readFile",
                                    FirebasercPath(Get(options, "directory")))
                   /\ st' = [st EXCEPT ![i].pc = "readFile"]
                   /\ log' = l0
                   /\ UNCHANGED <<heap, returned>>
  /\ UNCHANGED <<nodeEnv, answers, produced>>
  /\ StepFrame

\* fs.readFile answered
GoogleRegistryRead(i) ==
  /\ At(i, "stepConfigureGoogle", "readFile")
  /\ GoogleAfterReader(i, log, ReadProjectNameFromFirebaserc(OptionsOf(i), file))
  /\ answers' = Answer(answers, i, "readFile",
                       [text |-> ReadFile(FirebasercPath(Get(OptionsOf(i), "directory")),
                                          file)])
  /\ LET firebasercJson == GetFirebaserc(Get(OptionsOf(i), "directory"), file)
     IN  validations' =
           IF firebasercJson.error
             THEN validations
             ELSE Append(validations,
                         Validation(i, FirebasercValidators(firebasercJson.firebaserc),
                                    FirebasercSuccess))
  /\ UNCHANGED <<nodeEnv, produced>>
  /\ StepFrame

\* the gcloud command answered
GoogleProjectSet(i) ==
  /\ At(i, "stepConfigureGoogle", "gcloud")
  /\ \E o \in Offered("exec", ExecOutcomes) :
       /\ answers' = Answer(answers, i, "exec", o)
       /\ IF o.event = "throw"
            THEN Reject(i) /\ UNCHANGED log
            ELSE GoogleReturn(i, log,
                              Alloc(heap, SetGoogleCloudProject(st[i].projectName,
                                                                ExecResponse(o))),
                              NewRef(heap))
  /\ UNCHANGED <<nodeEnv, calls, validations, produced>>
  /\ StepFrame

----------------------------------------------------------------------------
(* firebase.js: configureFirebase, and stepConfigureFirebaseProject *)

ConfigureFirebaseWebFrameworks(response) ==
  IF NonZero(response.code)
    THEN [error |-> TRUE,
          message |-> "The Firebase webframeworks feature could not be enabled."]
    ELSE [error |-> FALSE,
          message |-> "The Firebase webframeworks feature has been enabled."]

\* what cli.login() may do: resolve with a user, or without one, or reject
LoginOutcomes ==
  { [kind |-> "resolve", user |-> [email |-> "dev@example.com"]],
    [kind |-> "resolve", user |-> EmptyMap],
    [kind |-> "reject", message |-> "boom"] }

ConfigureFirebaseLogin(o) ==
  LET res == IF o.kind = "reject"
               THEN [error |-> TRUE, message |-> o.message]
               ELSE o.user
      valid == "email" \in DOMAIN res /\ res.email # ""
  IN  IF valid
        THEN [email |-> res.email, error |-> FALSE,
              message |-> "The user has been logged in to Firebase."]
        ELSE [error |-> TRUE,
              message |-> IF "message" \in DOMAIN res /\ res.message # ""
                            THEN res.message
                            ELSE "The Firebase login attempt failed."]

ConfigureFirebaseProject(response) ==
  IF NonZero(response.code)
    THEN [error |-> TRUE, message |-> "The Firebase project could not be configured."]
    ELSE [error |-> FALSE, message |-> "The Firebase project has been configured."]

FirebaseMessages(options) ==
  << "Failed to configure Firebase using \""
       \o JsString(Get(options, "projectKey")) \o "\" as the projectKey.\n",
     "  1. Confirm the OPS_PROJECT_KEY env var in the .env file or the \"projectKey\" flag on the command line.\n",
     "     Ensure the project key is set to a valid and desirable value.\n\n",
     "  2. Ensure the .firebaserc file has a property for the corresponding project key.\n",
     "     Ensure the project name in the .firebaserc file is set to a valid and desirable value.\n\n",
     "  3. Ensure your gcloud user has access to the project referenced in the .firebaserc file.\n",
     "     Run \"firebase login:list\" to review your auth state.\n" >>

\* the entry of `produced` for a Result a sub-step of invocation i returned
Produce(p, i, fn, value) == Append(p, [by |-> i, fn |-> fn, value |-> value])

\* the end of stepConfigureFirebaseProject, given what configureFirebase returned
FirebaseReturn(i, l, h, ref) ==
  IF h[ref].error
    THEN /\ log' = l
         /\ Resolve(i, ref,
                    [h EXCEPT ![ref] = SetField(@, "messages", FirebaseMessages(OptionsOf(i)))],
                    SetField(st[i], "got", Got(h, ref)))
    ELSE /\ log' = Emit(l, "stepConfigureFirebaseProject", "success", <<"Firebase is ready.">>)
         /\ Resolve(i, ref, h, SetField(st[i], "got", Got(h, ref)))

\* (variant) a reducer that goes on with the state whatever the sub-step returned
FirebaseReducedState(h, state, res) == [ref |-> state, heap |-> h]

\* the reducer of configureFirebase: `return result.error ? result : currentState`
FirebaseReduced(h, state, res) ==
  IF res.error
    THEN [ref |-> NewRef(h), heap |-> Alloc(h, res)]
    ELSE [ref |-> state, heap |-> h]

\* (variant) a success response that carries the email of the login
FirebaseSuccessResponseWithEmail ==
  [email |-> "dev@example.com", error |-> FALSE, message |-> "Firebase has been configured."]

\* successResponse of configureFirebase
FirebaseSuccessResponse == [error |-> FALSE, message |-> "Firebase has been configured."]

\* the call: configureFirebase makes its success response and starts sub-step 1
StepConfigureFirebaseProject(i) ==
  /\ At(i, "stepConfigureFirebaseProject", "entry")
  /\ heap' = Alloc(heap, FirebaseSuccessResponse)
  /\ st' = [st EXCEPT ![i] = [pc |-> "webframeworks", state |-> NewRef(heap)]]
  /\ log' = Emit(log, "makeFirebaseConfigurationSteps", "info",
                 <<"Enabling Firebase's experimental webframeworks feature ...">>)
  /\ calls' = Call(calls, i, "exec", "firebase experiments:enable webframeworks")
  /\ UNCHANGED <<nodeEnv, returned, answers, validations, produced>>
  /\ StepFrame

\* sub-step 1 answered; on success sub-step 2 starts the login
FirebaseWebFrameworksDone(i) ==
  /\ At(i, "stepConfigureFirebaseProject", "webframeworks")
  /\ \E o \in Offered("exec", ExecOutcomes) :
       LET res == ConfigureFirebaseWebFrameworks(ExecResponse(o))
           r == FirebaseReduced(heap, st[i].state, res)
       IN  /\ answers' = Answer(answers, i, "exec", o)
           /\ IF o.event = "throw"
                THEN Reject(i) /\ UNCHANGED <<log, calls, produced>>
                ELSE /\ produced' = Produce(produced, i, "configureFirebaseWebFrameworks", res)
                     /\ IF r.heap[r.ref].error
                          THEN /\ FirebaseReturn(i, log, r.heap, r.ref)
                               /\ UNCHANGED calls
                          ELSE /\ log' = Emit(log, "makeFirebaseConfigurationSteps", "info",
                                              <<"Signing into Firebase ...">>)
                               /\ calls' = Call(calls, i, "login", "")
                               /\ st' = [st EXCEPT ![i].pc = "login"]
                               /\ heap' = r.heap
                               /\ UNCHANGED returned
  /\ UNCHANGED <<nodeEnv, validations>>
  /\ StepFrame

\* the login answered; on success sub-step 3 runs `firebase use <projectKey>`
FirebaseLoginDone(i) ==
  /\ At(i, "stepConfigureFirebaseProject", "login")
  /\ \E o \in Offered("login", LoginOutcomes) :
       LET res == ConfigureFirebaseLogin(o)
           r == FirebaseReduced(heap, st[i].state, res)
       IN  /\ answers' = Answer(answers, i, "login", o)
           /\ produced' = Produce(produced, i, "configureFirebaseLogin", res)
           /\ IF r.heap[r.ref].error
                THEN /\ FirebaseReturn(i, log, r.heap, r.ref)
                     /\ UNCHANGED calls
                ELSE /\ log' = Emit(log, "makeFirebaseConfigurationSteps", "info",
                                    <<"Configuring the Firebase project ...">>)
                     /\ calls' = Call(calls, i, "exec",
                                      "firebase use "
                                        \o JsString(Get(OptionsOf(i), "projectKey")))
                     /\ st' = [st EXCEPT ![i].pc = "firebaseUse"]
                     /\ heap' = r.heap
                     /\ UNCHANGED returned
  /\ UNCHANGED <<nodeEnv, validations>>
  /\ StepFrame

\* sub-step 3 answered; configureFirebase returns what the reducer is left with
FirebaseUseDone(i) ==
  /\ At(i, "stepConfigureFirebaseProject", "firebaseUse")
  /\ \E o \in Offered("exec", ExecOutcomes) :
       LET res == ConfigureFirebaseProject(ExecResponse(o))
           r == FirebaseReduced(heap, st[i].state, res)
       IN  /\ answers' = Answer(answers, i, "exec", o)
           /\ IF o.event = "throw"
                THEN Reject(i) /\ UNCHANGED <<log, produced>>
                ELSE /\ produced' = Produce(produced, i, "configureFirebaseProject", res)
                     /\ FirebaseReturn(i, log, r.heap, r.ref)
  /\ UNCHANGED <<nodeEnv, calls, validations>>
  /\ StepFrame

----------------------------------------------------------------------------
(* configureFontAwesome and stepConfigureFontAwesome *)

\* what the prompt may do: resolve with the answers, or reject
PromptOutcomes ==
  { [kind |-> "resolve", response |-> [token |-> "fa-token-1"]],
    [kind |-> "resolve", response |-> [token |-> "fa-token-2"]],
    [kind |-> "resolve", response |-> [token |-> ""]],
    [kind |-> "resolve", response |-> EmptyMap],
    [kind |-> "reject", message |-> "boom"] }

\* (variant) a sub-step that takes whatever the prompt resolved with
ObtainFontAwesomeTokenUnchecked(o) ==
  LET response == IF o.kind = "reject"
                    THEN [error |-> TRUE, message |-> o.message]
                    ELSE o.response
      error == "error" \in DOMAIN response /\ response.error
      message == IF error
                   THEN response.message
                   ELSE "The Font Awesome token has been obtained."
      res == [error |-> error, message |-> message]
  IN  IF "token" \in DOMAIN response THEN SetField(res, "token", response.token) ELSE res

ObtainFontAwesomeToken(o) ==
  LET response == IF o.kind = "reject"
                    THEN [error |-> TRUE, message |-> o.message]
                    ELSE o.response
      promptError == "error" \in DOMAIN response /\ response.error
      isValidToken == "token" \in DOMAIN response /\ response.token # ""
      error == promptError \/ ~isValidToken
      message == IF error
                   THEN IF "message" \in DOMAIN response /\ response.message # ""
                          THEN response.message
                          ELSE "The Font Awesome token is invalid."
                   ELSE "The Font Awesome token has been obtained."
      res == [error |-> error, message |-> message]
  IN  IF "token" \in DOMAIN response THEN SetField(res, "token", response.token) ELSE res

\* (variant) a sub-step that does not look at the code
SetFontAwesomeRegistryUnchecked(response) ==
  [error |-> FALSE, message |-> "The Font Awesome registry has been set."]

SetFontAwesomeRegistry(response) ==
  IF NonZero(response.code)
    THEN [error |-> TRUE, message |-> "Failed to set the Font Awesome registry."]
    ELSE [error |-> FALSE, message |-> "The Font Awesome registry has been set."]

SetFontAwesomeToken(response) ==
  IF NonZero(response.code)
    THEN [error |-> TRUE, message |-> "Failed to set the Font Awesome token."]
    ELSE [error |-> FALSE, message |-> "The Font Awesome token has been set."]

\* (variant) a command built from an object that has no token
TokenCommandNoState(state) ==
  "npm config set \"//npm.fontawesome.com/:_authToken\" undefined"

\* `${options?.token}` in the command of setFontAwesomeToken
TokenCommand(state) ==
  "npm config set \"//npm.fontawesome.com/:_authToken\" "
    \o (IF "token" \in DOMAIN state THEN state.token ELSE "undefined")

\* (variant) a step that returns the Result as it got it
FontAwesomeReturnBare(i, h, ref) ==
  Resolve(i, ref, h, SetField(st[i], "got", Got(h, ref)))

\* the end of stepConfigureFontAwesome, given what configureFontAwesome returned
FontAwesomeReturn(i, h, ref) ==
  IF h[ref].error
    THEN Resolve(i, ref,
                 [h EXCEPT ![ref] = SetField(@, "messages",
                                             <<"Failed to configure Font Awesome.">>)],
                 SetField(st[i], "got", Got(h, ref)))
    ELSE Resolve(i, ref, h, SetField(st[i], "got", Got(h, ref)))

\* (variant) a reducer that goes on with the state whatever the sub-step returned
FontAwesomeReducedState(h, state, latestState) ==
  LET haveToken == /\ ~latestState.error
                   /\ "token" \in DOMAIN latestState
                   /\ latestState.token # ""
  IN  [ref |-> state,
       heap |-> IF haveToken
                  THEN [h EXCEPT ![state] = SetField(@, "token", latestState.token)]
                  ELSE h]

\* the reducer of configureFontAwesome: a token the sub-step returned is put
\* on the state, then `return error ? latestState : state`
FontAwesomeReduced(h, state, latestState) ==
  LET haveToken == /\ ~latestState.error
                   /\ "token" \in DOMAIN latestState
                   /\ latestState.token # ""
      h1 == IF haveToken
              THEN [h EXCEPT ![state] = SetField(@, "token", latestState.token)]
              ELSE h
  IN  IF latestState.error
        THEN [ref |-> NewRef(h1), heap |-> Alloc(h1, latestState)]
        ELSE [ref |-> state, heap |-> h1]

\* (variant) an exec that logs every command it runs
ExecLoggedVerbose(l, command) ==
  Emit(l, "exec", "log", <<"Executing " \o command \o " ...">>)

\* the debug line of exec for a command of the Font Awesome sub-steps, which
\* call executable(command) with no options
ExecLogged(l, command) ==
  IF Debug(EmptyMap)
    THEN Emit(l, "exec", "log", <<"Executing " \o command \o " ...">>)
    ELSE l

\* the call: configureFontAwesome makes its state and sub-step 1 shows the prompt
StepConfigureFontAwesome(i) ==
  /\ At(i, "stepConfigureFontAwesome", "entry")
  /\ heap' = Alloc(heap, [error |-> FALSE, message |-> "Font Awesome is ready."])
  /\ st' = [st EXCEPT ![i] = [pc |-> "prompt", state |-> NewRef(heap)]]
  /\ log' = Emit(Emit(log, "configureFontAwesome", "info",
                      <<"Setting up Font Awesome ... \n">>),
                 "obtainFontAwesomeToken", "info",
                 <<"Obtain the Font Awesome token from fontawesome.com/account">>)
  /\ calls' = Call(calls, i, "prompt", "Enter the Font Awesome token.")
  /\ UNCHANGED <<nodeEnv, returned, answers, validations, produced>>
  /\ StepFrame

\* the prompt answered; a valid token is put on the state and sub-step 2 starts
FontAwesomeTokenObtained(i) ==
  /\ At(i, "stepConfigureFontAwesome", "prompt")
  /\ \E o \in Offered("prompt", PromptOutcomes) :
       LET latestState == ObtainFontAwesomeToken(o)
           r == FontAwesomeReduced(heap, st[i].state, latestState)
       IN  /\ answers' = Answer(answers, i, "prompt", o)
           /\ produced' = Produce(produced, i, "obtainFontAwesomeToken", latestState)
           /\ IF r.heap[r.ref].error
                THEN /\ FontAwesomeReturn(i, r.heap, r.ref)
                     /\ UNCHANGED <<log, calls>>
                ELSE /\ heap' = r.heap
                     /\ calls' = Call(calls, i, "exec",
                                      "npm config set \"@fortawesome:registry\" npm.fontawesome.com/")
                     /\ log' = ExecLogged(log,
                                      "npm config set \"@fortawesome:registry\" npm.fontawesome.com/")
                     /\ st' = [st EXCEPT ![i].pc = "npmRegistry"]
                     /\ UNCHANGED returned
  /\ UNCHANGED <<nodeEnv, validations>>
  /\ StepFrame

\* the registry command answered; on success sub-step 3 sets the token
FontAwesomeRegistrySet(i) ==
  /\ At(i, "stepConfigureFontAwesome", "npmRegistry")
  /\ \E o \in Offered("exec", ExecOutcomes) :
       LET latestState == SetFontAwesomeRegistry(ExecResponse(o))
           r == FontAwesomeReduced(heap, st[i].state, latestState)
       IN  /\ answers' = Answer(answers, i, "exec", o)
           /\ IF o.event = "throw"
                THEN Reject(i) /\ UNCHANGED <<log, calls, produced>>
                ELSE /\ produced' = Produce(produced, i, "setFontAwesomeRegistry", latestState)
                     /\ IF r.heap[r.ref].error
                          THEN /\ FontAwesomeReturn(i, r.heap, r.ref)
                               /\ UNCHANGED <<log, calls>>
                          ELSE /\ log' = ExecLogged(
                                          Emit(log, "setFontAwesomeToken", "info",
                                               <<"Configuring access to the Font Awesome registry ...">>),
                                          TokenCommand(r.heap[r.ref]))
                               /\ calls' = Call(calls, i, "exec",
                                                TokenCommand(r.heap[r.ref]))
                               /\ st' = [st EXCEPT ![i].pc = "npmToken"]
                               /\ heap' = r.heap
                               /\ UNCHANGED returned
  /\ UNCHANGED <<nodeEnv, validations>>
  /\ StepFrame

\* the token command answered; configureFontAwesome returns what the reducer
\* is left with
FontAwesomeTokenSet(i) ==
  /\ At(i, "stepConfigureFontAwesome", "npmToken")
  /\ \E o \in Offered("exec", ExecOutcomes) :
       LET latestState == SetFontAwesomeToken(ExecResponse(o))
           r == FontAwesomeReduced(heap, st[i].state, latestState)
       IN  /\ answers' = Answer(answers, i, "exec", o)
           /\ IF o.event = "throw"
                THEN Reject(i) /\ UNCHANGED produced
                ELSE /\ produced' = Produce(produced, i, "setFontAwesomeToken", latestState)
                     /\ FontAwesomeReturn(i, r.heap, r.ref)
  /\ UNCHANGED <<nodeEnv, log, calls, validations>>
  /\ StepFrame

----------------------------------------------------------------------------
(* The specification *)

\* what the caller of a command can tell of the run that has settled
RunRecord ==
  [cmd |-> cmd,
   settlement |-> pc,
   invoked |-> [k \in 1..Len(invoked) |-> invoked[k].step.fn],
   calls |-> calls,
   answers |-> answers,
   returned |-> [k \in 1..Len(returned) |-> returned[k].value],
   log |-> log,
   result |-> IF result = <<>> THEN <<>> ELSE <<heap[result[1]]>>]

\* the promise of setup or setupFirebase has settled; the caller makes a fresh
\* options object equal to the first and is about to call the command again
RunAgain ==
  /\ pc \in {"resolved", "rejected"}
  /\ cmd \in {"setup", "firebase"}
  /\ first = <<>>
  /\ first' = <<RunRecord>>
  /\ heap' = <<given.options>>
  /\ pc' = "cli"
  /\ steps' = <<>>
  /\ invoked' = <<>>
  /\ st' = <<>>
  /\ returned' = <<>>
  /\ calls' = <<>>
  /\ answers' = <<>>
  /\ log' = <<>>
  /\ result' = <<>>
  /\ validations' = <<>>
  /\ produced' = <<>>
  /\ UNCHANGED <<cmd, file, nodeEnv, exitCode, given, proc>>

Invocations == 1..Len(invoked)

Next ==
  \/ Setup
  \/ SetupFirebase
  \/ CallRunSteps
  \/ CallRunValidators
  \/ CallExec
  \/ ExecStdoutData
  \/ ExecStderrData
  \/ ExecExit
  \/ ExecClose
  \/ RunSteps
  \/ RunStepsResume
  \/ ProcessExit
  \/ RunAgain
  \/ \E i \in Invocations : StepCall(i)
  \/ \E i \in Invocations : StepSettle(i)
  \/ \E i \in Invocations : StepConfigureNodeEnv(i)
  \/ \E i \in Invocations : StepConfigureGoogle(i)
  \/ \E i \in Invocations : GoogleRegistryRead(i)
  \/ \E i \in Invocations : GoogleProjectSet(i)
  \/ \E i \in Invocations : StepConfigureFirebaseProject(i)
  \/ \E i \in Invocations : FirebaseWebFrameworksDone(i)
  \/ \E i \in Invocations : FirebaseLoginDone(i)
  \/ \E i \in Invocations : FirebaseUseDone(i)
  \/ \E i \in Invocations : StepConfigureFontAwesome(i)
  \/ \E i \in Invocations : FontAwesomeTokenObtained(i)
  \/ \E i \in Invocations : FontAwesomeRegistrySet(i)
  \/ \E i \in Invocations : FontAwesomeTokenSet(i)
  \/ \E i \in Invocations : StepFinish(i)

Spec == Init /\ [][Next]_vars

\* the runner: the continuations of runSteps the event loop runs
Runner == RunSteps \/ RunStepsResume

\* the steps: what a step function does when it is called and when the
\* provider it awaits has answered
StepActions ==
  \E i \in Invocations :
    \/ StepCall(i) \/ StepSettle(i) \/ StepFinish(i)
    \/ StepConfigureNodeEnv(i)
    \/ StepConfigureGoogle(i) \/ GoogleRegistryRead(i) \/ GoogleProjectSet(i)
    \/ StepConfigureFirebaseProject(i) \/ FirebaseWebFrameworksDone(i)
    \/ FirebaseLoginDone(i) \/ FirebaseUseDone(i)
    \/ StepConfigureFontAwesome(i) \/ FontAwesomeTokenObtained(i)
    \/ FontAwesomeRegistrySet(i) \/ FontAwesomeTokenSet(i)

\* one run of runSteps: through setup, through setupFirebase or with the
\* steps of a caller
RunNext == Setup \/ SetupFirebase \/ CallRunSteps \/ Runner \/ StepActions

\* the runs in which the event loop runs every continuation that is ready and
\* every provider call is answered
LiveSpec == Init /\ [][RunNext]_vars /\ WF_vars(Runner) /\ WF_vars(StepActions)

----------------------------------------------------------------------------
(* Vocabulary of the properties *)

\* the sequence runSteps was called with: what it invoked, then what is left
OriginalSteps == [k \in 1..Len(invoked) |-> invoked[k].step] \o steps

\* runSteps has resolved with a Result
Returned == pc \in {"resolved", "exited"} /\ result # <<>>

\* the k-th Result a step promise resolved with has error = true
Failed(k) == returned[k].value.error

\* invocation i is in progress: called, its promise not settled
InProgress(i) == st[i].pc \notin {"settled", "rejected"}

\* what the runner itself emitted through the logger
RunnerOutput == SelectSeq(log, LAMBDA e : e.by = "runSteps")

HasMessage(res) == "message" \in DOMAIN res
HasMessages(res) == "messages" \in DOMAIN res

\* an answer by which the provider call failed to resolve: it rejected
Rejection(a) ==
  \/ a.provider = "exec" /\ a.outcome.event = "throw"
  \/ a.provider \in {"login", "prompt"} /\ a.outcome.kind = "reject"

FixedRun == cmd \in {"setup", "firebase"}

\* the options are such as the commander options yield: every flag a string
CliOptions ==
  \A f \in {"directory", "projectKey", "env"} : Get(heap[OptionsRef], f).type = "string"

\* the remediation block of a step of the fixed sequences
Remediation(fn, options) ==
  CASE fn = "stepConfigureNodeEnv" -> NodeEnvMessages(Get(options, "env"))
    [] fn = "stepConfigureGoogle" -> GoogleMessages(options)
    [] fn = "stepConfigureFirebaseProject" -> FirebaseMessages(options)
    [] fn = "stepConfigureFontAwesome" -> <<"Failed to configure Font Awesome.">>
    [] OTHER -> <<>>

\* the step that was invoked last
LastStep == invoked[Len(invoked)].step.fn

Banner == [by |-> "stepFinish", level |-> "success",
           messages |-> <<"\nThe setup is complete. Happy coding!\n">>]

----------------------------------------------------------------------------
(* Properties *)

C3_OneStepAtATime ==
  \A i \in 1..Len(invoked) : \A j \in 1..Len(invoked) :
    i < j => ~InProgress(i)

\* the second step of a run is in progress, the first has settled
C3_Witness ==
  /\ Len(invoked) >= 2
  /\ InProgress(Len(invoked))
  /\ st[1].pc = "settled"

\* C4, as claimed: runSteps never rejects, whatever its steps do (a step that
\* throws or whose promise rejects included).
C4_NeverRejects == pc # "rejected"

\* C5, as claimed: when a provider call rejects with message m, the step that
\* made the call does not reject, and the Result it resolves with has
\* error = true and message = m.
C5_RejectionBecomesResult ==
  \A n \in 1..Len(answers) :
    Rejection(answers[n]) =>
      LET s == st[answers[n].by]
      IN  /\ s.pc # "rejected"
          /\ s.pc = "settled" =>
               /\ heap[s.res].error
               /\ HasMessage(heap[s.res])
               /\ heap[s.res].message = answers[n].outcome.message

\* C6, as claimed: after setup or the firebase subcommand the exit code is
\* nonzero exactly when the Result of runSteps has error = true, and on
\* success it is 0 with the completion banner printed.
C6_ExitCodeReflectsResult ==
  (FixedRun /\ CliOptions /\ pc = "exited" /\ result # <<>>) =>
    /\ (exitCode[1] # 0) <=> heap[result[1]].error
    /\ ~heap[result[1]].error =>
         exitCode = <<0>> /\ \E n \in 1..Len(log) : log[n] = Banner

C8_SummaryThenRemediation ==
  (FixedRun /\ Returned /\ heap[result[1]].error) =>
    /\ Len(RunnerOutput) = 2
    /\ RunnerOutput[1].level = "error"
    /\ Len(RunnerOutput[1].messages) = 1
    /\ RunnerOutput[2] = [by |-> "runSteps", level |-> "log",
                          messages |-> Remediation(LastStep, heap[OptionsRef])]
    /\ Len(returned) = Len(invoked)
    /\ Failed(Len(returned))

\* C8, amended: the summary line is there exactly when the failing step is not
\* the runtime-mode step, whose Result has no message; it carries the Result's
\* message; the remediation block of the failing step follows; no step after
\* the failing one is invoked.
C8_RemediationAfterOptionalSummary ==
  (FixedRun /\ Returned /\ heap[result[1]].error) =>
    LET res == heap[result[1]]
        summary == IF LastStep = "stepConfigureNodeEnv"
                     THEN <<>>
                     ELSE <<[by |-> "runSteps", level |-> "error",
                             messages |-> <<res.message>>]>>
    IN  /\ LastStep # "stepConfigureNodeEnv" => HasMessage(res)
        /\ RunnerOutput =
             summary \o <<[by |-> "runSteps", level |-> "log",
                           messages |-> Remediation(LastStep, heap[OptionsRef])]>>
        /\ Len(returned) = Len(invoked)
        /\ Failed(Len(returned))
        /\ \A k \in 1..(Len(returned) - 1) : ~Failed(k)

\* setup has failed in the package-registry-credential step
C8_Witness ==
  /\ cmd = "setup"
  /\ Returned
  /\ heap[result[1]].error
  /\ LastStep = "stepConfigureFontAwesome"
  /\ Len(RunnerOutput) = 2

\* C9 (remediation completeness): every Result with error = true that one of
\* the five step functions resolved with has a message or a messages field.
C9_RemediationComplete ==
  \A k \in 1..Len(returned) :
    (invoked[returned[k].inv].step.fn # "step" /\ Failed(k)) =>
      HasMessage(returned[k].value) \/ HasMessages(returned[k].value)

\* the runtime-mode step has failed: its Result has messages and no message
C9_Witness ==
  \E k \in 1..Len(returned) :
    /\ invoked[returned[k].inv].step.fn = "stepConfigureNodeEnv"
    /\ Failed(k)
    /\ ~HasMessage(returned[k].value)
    /\ HasMessages(returned[k].value)

\* C10 (no retries): in a run of setup or setupFirebase no step function is
\* invoked twice and no provider call is made twice, whether it failed or not.
C10_NoRetries ==
  FixedRun =>
    /\ \A i \in 1..Len(invoked) : \A j \in 1..Len(invoked) :
         i # j => invoked[i].step # invoked[j].step
    /\ \A m \in 1..Len(calls) : \A n \in 1..Len(calls) :
         m # n => <<calls[m].provider, calls[m].arg>> # <<calls[n].provider, calls[n].arg>>
    /\ Len(answers) <= Len(calls)

\* setup is over after its gcloud command failed: the registry read and the
\* command are the only provider calls there were
C10_Witness ==
  /\ cmd = "setup"
  /\ Returned
  /\ heap[result[1]].error
  /\ LastStep = "stepConfigureGoogle"
  /\ Len(calls) = 2
  /\ Len(answers) = 2
  /\ answers[2].provider = "exec"
  /\ NonZero(ExecResponse(answers[2].outcome).code)

----------------------------------------------------------------------------
(* Vocabulary of the properties about the steps and what they delegate to *)

\* invocation i is an invocation of the step function fn
IsStep(i, fn) == invoked[i].step.fn = fn

Settled(i) == st[i].pc = "settled"
Rejected(i) == st[i].pc = "rejected"

\* the Result invocation i resolved with, as it is now
ResultOf(i) == heap[st[i].res]

\* the calls invocation i made, and the answers it got, in order
CallsOf(i) == SelectSeq(calls, LAMBDA c : c.by = i)
CallsBy(i, provider) == SelectSeq(calls, LAMBDA c : c.by = i /\ c.provider = provider)
AnswersTo(i, provider) ==
  SelectSeq(answers, LAMBDA a : a.by = i /\ a.provider = provider)

\* the Results the sub-steps of invocation i returned, in order
ProducedBy(i) == SelectSeq(produced, LAMBDA e : e.by = i)

\* q is an initial part of r
IsPrefix(q, r) == Len(q) <= Len(r) /\ \A k \in 1..Len(q) : q[k] = r[k]

\* the command ended with exit code 0, as the shell executor reports it
ExitedWithZero(a) ==
  a.outcome.event \in {"exit", "close"} /\ a.outcome.code = Num(0)

\* the registry file of the project is the one in /app
RegistryAt(options) ==
  IF Get(options, "directory") = Str("/app") THEN file ELSE Absent

\* the text is JSON for a non-empty object whose projects is a non-empty mapping
HasProjectsMapping(text) ==
  /\ text # Absent
  /\ ~ParseJson(text).error
  /\ LET json == ParseJson(text).json
     IN  /\ json.type = "object"
         /\ "projects" \in DOMAIN json.val
         /\ json.val.projects.type = "object"
         /\ DOMAIN json.val.projects.val # {}

ProjectsIn(text) == ParseJson(text).json.val.projects.val

\* directory and projectKey are non-empty strings, the registry file has a
\* projects mapping, and projects[projectKey] is a non-empty string
LocalInputValid(options) ==
  LET directory == Get(options, "directory")
      projectKey == Get(options, "projectKey")
  IN  /\ directory.type = "string" /\ directory.val # ""
      /\ projectKey.type = "string" /\ projectKey.val # ""
      /\ HasProjectsMapping(RegistryAt(options))
      /\ projectKey.val \in DOMAIN ProjectsIn(RegistryAt(options))
      /\ ProjectsIn(RegistryAt(options))[projectKey.val].type = "string"
      /\ ProjectsIn(RegistryAt(options))[projectKey.val].val # ""

\* projects[projectKey], for a valid local input
RegistryName(options) ==
  ProjectsIn(RegistryAt(options))[Get(options, "projectKey").val].val

----------------------------------------------------------------------------
(* Properties of the steps *)

\* C11: whenever the local input of the cloud-project step is invalid (the
\* directory or the projectKey is not a non-empty string, the registry file is
\* missing, unparsable, not a non-empty object, without a non-empty projects
\* mapping, or projects[projectKey] is not a non-empty string), the step never
\* calls the shell executor, does not reject, and resolves with error = true.
C11_InvalidInputNoCloudCall ==
  \A i \in Invocations :
    (IsStep(i, "stepConfigureGoogle") /\ ~LocalInputValid(OptionsOf(i))) =>
      /\ CallsBy(i, "exec") = <<>>
      /\ ~Rejected(i)
      /\ Settled(i) => ResultOf(i).error

\* the cloud-project step has returned after it found an empty project name
\* under the projectKey in a registry file it could read and parse
C11_Witness ==
  \E i \in Invocations :
    /\ IsStep(i, "stepConfigureGoogle")
    /\ Settled(i)
    /\ ResultOf(i).error
    /\ file = "{\"projects\":{\"default\":\"\"}}"
    /\ OptionsOf(i) = [directory |-> Str("/app"), projectKey |-> Str("default"),
                       env |-> Str("development")]

\* C12: in a run of setup or setupFirebase over a registry file that is
\* absent, unparsable or without a non-empty projects mapping, the only
\* provider ever called is the file reader (no gcloud, firebase, login, prompt
\* or npm call), the run does not reject, and it returns error = true.
C12_NoCommandWithoutRegistry ==
  (FixedRun /\ ~HasProjectsMapping(file)) =>
    /\ \A n \in 1..Len(calls) : calls[n].provider = "readFile"
    /\ pc # "rejected"
    /\ Returned => heap[result[1]].error

\* setupFirebase has returned over a registry file whose projects is empty,
\* after it read the file
C12_Witness ==
  /\ cmd = "firebase"
  /\ file = "{\"projects\":{}}"
  /\ Returned
  /\ heap[result[1]].error
  /\ Len(calls) = 1
  /\ Len(answers) = 1

\* C13: when the local input is valid and the registry maps the projectKey to
\* the name n, the cloud-project step calls the shell executor at most once,
\* and once it is over it has called it exactly once, with the command
\* `gcloud config set project n --no-user-output-enabled`; the Result it
\* resolves with has error = false exactly when the code the executor
\* reported for that command is 0.
C13_CloudCommand ==
  \A i \in Invocations :
    (IsStep(i, "stepConfigureGoogle") /\ LocalInputValid(OptionsOf(i))) =>
      /\ Len(CallsBy(i, "exec")) <= 1
      /\ (Settled(i) \/ Rejected(i)) =>
           /\ CallsBy(i, "exec") =
                <<[by |-> i, provider |-> "exec",
                   arg |-> "gcloud config set project " \o RegistryName(OptionsOf(i))
                             \o " --no-user-output-enabled"]>>
           /\ Len(AnswersTo(i, "exec")) = 1
      /\ Settled(i) =>
           (ResultOf(i).error = FALSE <=> ExitedWithZero(AnswersTo(i, "exec")[1]))

\* the cloud-project step has set the project acme-prod and returned success
C13_Witness ==
  \E i \in Invocations :
    /\ IsStep(i, "stepConfigureGoogle")
    /\ Settled(i)
    /\ ~ResultOf(i).error
    /\ Len(CallsBy(i, "exec")) = 1
    /\ RegistryName(OptionsOf(i)) = "acme-prod"

\* the two commands of the package-registry-credential step
RegistryCommand == "npm config set \"@fortawesome:registry\" npm.fontawesome.com/"
AuthTokenCommand(token) ==
  "npm config set \"//npm.fontawesome.com/:_authToken\" " \o token

\* the prompt of invocation i has resolved with a token that is not empty
PromptGaveToken(i) ==
  /\ AnswersTo(i, "prompt") # <<>>
  /\ AnswersTo(i, "prompt")[1].outcome.kind = "resolve"
  /\ "token" \in DOMAIN AnswersTo(i, "prompt")[1].outcome.response
  /\ AnswersTo(i, "prompt")[1].outcome.response.token # ""

\* the prompt of invocation i has resolved with an empty token or with none
PromptGaveNoToken(i) ==
  /\ AnswersTo(i, "prompt") # <<>>
  /\ AnswersTo(i, "prompt")[1].outcome.kind = "resolve"
  /\ \/ "token" \notin DOMAIN AnswersTo(i, "prompt")[1].outcome.response
     \/ AnswersTo(i, "prompt")[1].outcome.response.token = ""

PromptToken(i) == AnswersTo(i, "prompt")[1].outcome.response.token

\* C14: when the prompt of the package-registry-credential step resolves with
\* an empty token or with no token, the step resolves with error = true and
\* the message 'The Font Awesome token is invalid.', and it never calls the
\* shell executor: neither the registry command nor the auth-token command.
C14_EmptyTokenStopsStep ==
  \A i \in Invocations :
    (IsStep(i, "stepConfigureFontAwesome") /\ PromptGaveNoToken(i)) =>
      /\ CallsBy(i, "exec") = <<>>
      /\ Settled(i)
      /\ ResultOf(i).error
      /\ HasMessage(ResultOf(i))
      /\ ResultOf(i).message = "The Font Awesome token is invalid."

\* the prompt has resolved with {token: ""} and the step has returned
C14_Witness ==
  \E i \in Invocations :
    /\ IsStep(i, "stepConfigureFontAwesome")
    /\ AnswersTo(i, "prompt") # <<>>
    /\ AnswersTo(i, "prompt")[1].outcome = [kind |-> "resolve", response |-> [token |-> ""]]
    /\ Settled(i)

\* C15: the package-registry-credential step calls the shell executor at most
\* twice: first with the registry command, then with an auth-token command;
\* the auth-token command is called only after the prompt resolved with a
\* non-empty token and the registry command ended with exit code 0; a step
\* that resolved with error = false has called each command exactly once.
C15_RegistryThenToken ==
  \A i \in Invocations :
    IsStep(i, "stepConfigureFontAwesome") =>
      LET cs == CallsBy(i, "exec")
          as == AnswersTo(i, "exec")
      IN  /\ Len(cs) <= 2
          /\ Len(cs) >= 1 => cs[1].arg = RegistryCommand
          /\ Len(cs) = 2 =>
               /\ PromptGaveToken(i)
               /\ cs[2].arg # RegistryCommand
               /\ cs[2].arg = AuthTokenCommand(PromptToken(i))
               /\ Len(as) >= 1
               /\ ExitedWithZero(as[1])
          /\ (Settled(i) /\ ~ResultOf(i).error) =>
               /\ Len(cs) = 2
               /\ Len(as) = 2
               /\ ExitedWithZero(as[2])

\* the step has succeeded after both commands
C15_Witness ==
  \E i \in Invocations :
    /\ IsStep(i, "stepConfigureFontAwesome")
    /\ Settled(i)
    /\ ~ResultOf(i).error
    /\ Len(CallsBy(i, "exec")) = 2

\* C16 (token forwarding): whenever the auth-token command has been called,
\* the prompt of the same invocation had resolved with a non-empty token, that
\* token is the token field of the state object of configureFontAwesome, and
\* the command carries exactly that token.
C16_TokenForwarded ==
  \A n \in 1..Len(calls) :
    LET i == calls[n].by
    IN  (/\ calls[n].provider = "exec"
         /\ IsStep(i, "stepConfigureFontAwesome")
         /\ calls[n].arg # RegistryCommand) =>
          /\ PromptGaveToken(i)
          /\ "token" \in DOMAIN heap[st[i].state]
          /\ heap[st[i].state].token = PromptToken(i)
          /\ calls[n].arg = AuthTokenCommand(heap[st[i].state].token)

\* the auth-token command is being executed with the second of the tokens
C16_Witness ==
  \E n \in 1..Len(calls) :
    /\ calls[n].provider = "exec"
    /\ calls[n].arg = AuthTokenCommand("fa-token-2")
    /\ st[calls[n].by].pc = "npmToken"

\* the sub-steps of the two configure functions, in list order
FontAwesomeSubSteps ==
  <<"obtainFontAwesomeToken", "setFontAwesomeRegistry", "setFontAwesomeToken">>
FirebaseSubSteps ==
  <<"configureFirebaseWebFrameworks", "configureFirebaseLogin", "configureFirebaseProject">>

\* the names of the sub-steps of invocation i that have returned, in order
ReturnedSubSteps(i) == [k \in 1..Len(ProducedBy(i)) |-> ProducedBy(i)[k].fn]

\* the k-th sub-step of invocation i returned error = true
SubStepFailed(i, k) == ProducedBy(i)[k].value.error

\* C17: configureFontAwesome calls its sub-steps one after another in list
\* order, each of them making one provider call; once a sub-step returned a
\* Result with error = true no further sub-step is called, and
\* configureFontAwesome returns that Result with the fields it had.
C17_FontAwesomeFirstError ==
  \A i \in Invocations :
    IsStep(i, "stepConfigureFontAwesome") =>
      /\ IsPrefix(ReturnedSubSteps(i), FontAwesomeSubSteps)
      /\ Len(CallsOf(i)) <= Len(ReturnedSubSteps(i)) + 1
      /\ \A k \in 1..Len(ProducedBy(i)) :
           SubStepFailed(i, k) =>
             /\ Len(ProducedBy(i)) = k
             /\ Len(CallsOf(i)) = k
             /\ Settled(i)
             /\ st[i].got.value = ProducedBy(i)[k].value

\* the registry command has failed: the second sub-step returned the error
\* and the third was not called
C17_Witness ==
  \E i \in Invocations :
    /\ IsStep(i, "stepConfigureFontAwesome")
    /\ Len(ProducedBy(i)) = 2
    /\ SubStepFailed(i, 2)
    /\ Settled(i)
    /\ st[i].got.value = [error |-> TRUE, message |-> "Failed to set the Font Awesome registry."]

\* C18: configureFirebase calls its sub-steps in the order webframeworks,
\* login, `firebase use <projectKey>`; once a sub-step returned a Result with
\* error = true no further sub-step is called and configureFirebase returns
\* that Result; so `firebase use <projectKey>` is executed only after the
\* webframeworks command ended with exit code 0 and the login resolved with a
\* non-empty email.
C18_FirebaseFirstError ==
  \A i \in Invocations :
    IsStep(i, "stepConfigureFirebaseProject") =>
      /\ IsPrefix(ReturnedSubSteps(i), FirebaseSubSteps)
      /\ IsPrefix([k \in 1..Len(CallsOf(i)) |-> <<CallsOf(i)[k].provider, CallsOf(i)[k].arg>>],
                  << <<"exec", "firebase experiments:enable webframeworks">>,
                     <<"login", "">>,
                     <<"exec", "firebase use " \o JsString(Get(OptionsOf(i), "projectKey"))>> >>)
      /\ Len(CallsOf(i)) <= Len(ReturnedSubSteps(i)) + 1
      /\ \A k \in 1..Len(ProducedBy(i)) :
           SubStepFailed(i, k) =>
             /\ Len(ProducedBy(i)) = k
             /\ Len(CallsOf(i)) = k
             /\ Settled(i)
             /\ st[i].got.value = ProducedBy(i)[k].value
      /\ Len(CallsOf(i)) = 3 =>
           /\ ExitedWithZero(AnswersTo(i, "exec")[1])
           /\ AnswersTo(i, "login")[1].outcome.kind = "resolve"
           /\ "email" \in DOMAIN AnswersTo(i, "login")[1].outcome.user
           /\ AnswersTo(i, "login")[1].outcome.user.email # ""

\* `firebase use default` has been executed and has failed
C18_Witness ==
  \E i \in Invocations :
    /\ IsStep(i, "stepConfigureFirebaseProject")
    /\ Len(CallsOf(i)) = 3
    /\ CallsOf(i)[3].arg = "firebase use default"
    /\ Len(ProducedBy(i)) = 3
    /\ SubStepFailed(i, 3)
    /\ Settled(i)

\* the positions of the validators of a call that return error = true
FailingValidators(v) ==
  {k \in 1..Len(v.validators) : InvokeValidator(v.validators[k]).error}

\* the smallest element of a non-empty set of numbers
Least(S) == CHOOSE k \in S : \A m \in S : k <= m

\* C19: a call of runValidators invokes the validators in list order up to
\* and including the first that returns error = true, returns that
\* validator's result and invokes none of the validators after it; when no
\* validator fails it has invoked all of them and returns the success response
\* it was given.  validateOptions lists the directory validator before the
\* projectKey validator, and does not invoke the latter for an invalid
\* directory.
C19_ValidatorsInOrder ==
  \A n \in 1..Len(validations) :
    LET v == validations[n]
        failing == FailingValidators(v)
    IN  /\ IF failing = {}
             THEN /\ v.invoked = [k \in 1..Len(v.validators) |-> k]
                  /\ v.result = v.successResponse
             ELSE /\ v.invoked = [k \in 1..Least(failing) |-> k]
                  /\ v.result = InvokeValidator(v.validators[Least(failing)])
        /\ (v.by # 0 /\ IsStep(v.by, "stepConfigureGoogle")
              /\ v.successResponse = OptionsSuccess) =>
             /\ [k \in 1..Len(v.validators) |-> v.validators[k].fn] =
                  <<"validateDirectory", "validateProjectKey">>
             /\ v.validators[1].arg = Get(OptionsOf(v.by), "directory")
             /\ v.validators[2].arg = Get(OptionsOf(v.by), "projectKey")
             /\ ~(v.validators[1].arg.type = "string" /\ v.validators[1].arg.val # "") =>
                  /\ v.invoked = <<1>>
                  /\ v.result = [error |-> TRUE,
                                 message |-> "The directory option is required."]

\* runValidators was given three validators of which the second and the third
\* fail: it invoked the first two and returned the result of the second
C19_Witness ==
  \E n \in 1..Len(validations) :
    /\ validations[n].by = 0
    /\ Len(validations[n].validators) = 3
    /\ FailingValidators(validations[n]) = {2, 3}
    /\ validations[n].invoked = <<1, 2>>
    /\ validations[n].result = validations[n].validators[2].arg

\* the steps of setup, in order
SetupOrder ==
  <<"stepConfigureNodeEnv", "stepConfigureGoogle", "stepConfigureFirebaseProject",
    "stepConfigureFontAwesome", "stepFinish">>

\* how often the completion banner was emitted
Banners == Len(SelectSeq(log, LAMBDA e : e = Banner))

\* the first four steps of the run have returned error = false
FourStepsSucceeded ==
  Len(returned) >= 4 /\ \A k \in 1..4 : returned[k].inv = k /\ ~Failed(k)

\* C20: setup invokes its steps in the order runtime-mode, cloud-project,
\* deployment-project-link, package-registry-credential, finish; the
\* completion banner is emitted at most once and only after the four earlier
\* steps returned error = false; when setup has returned, the banner was
\* emitted exactly when those four steps returned error = false, and then
\* what setup returned is {error: false}.
C20_SetupOrderAndBanner ==
  cmd = "setup" =>
    /\ IsPrefix([k \in 1..Len(invoked) |-> invoked[k].step.fn], SetupOrder)
    /\ Banners <= 1
    /\ Banners = 1 => FourStepsSucceeded
    /\ Returned =>
         /\ Banners = 1 <=> FourStepsSucceeded
         /\ Banners = 1 => heap[result[1]] = [error |-> FALSE]

\* setup has returned after the banner
C20_Witness ==
  /\ cmd = "setup"
  /\ Returned
  /\ Banners = 1
  /\ FourStepsSucceeded
  /\ heap[result[1]] = [error |-> FALSE]

----------------------------------------------------------------------------
(* Properties of the commands, the executor and the data *)

\* the names of the step functions invoked so far, in order
StepNames == [k \in 1..Len(invoked) |-> invoked[k].step.fn]

\* the steps of setupFirebase, in order
FirebaseOrder == <<"stepConfigureGoogle", "stepConfigureFirebaseProject", "stepFinish">>

\* the npm commands of the system
NpmCommands ==
  {RegistryCommand, AuthTokenCommand("undefined")} \cup
  {AuthTokenCommand(o.response.token) :
     o \in {p \in PromptOutcomes : p.kind = "resolve" /\ "token" \in DOMAIN p.response}}

\* C21: setupFirebase runs the cloud-project step, the deployment-project-link
\* step and the finish step, in that order and no other step (all three when
\* it returned without an error); it never writes NODE_ENV, never shows the
\* token prompt and never runs an npm command.
C21_FirebaseOnly ==
  cmd = "firebase" =>
    /\ IsPrefix(StepNames, FirebaseOrder)
    /\ Returned /\ ~heap[result[1]].error => StepNames = FirebaseOrder
    /\ nodeEnv = Str("production")
    /\ \A k \in 1..Len(calls) :
         /\ calls[k].provider # "prompt"
         /\ calls[k].provider = "exec" => calls[k].arg \notin NpmCommands

\* setupFirebase has returned after its three steps
C21_Witness ==
  /\ cmd = "firebase"
  /\ Returned
  /\ ~heap[result[1]].error
  /\ StepNames = FirebaseOrder
  /\ Len(calls) >= 4

\* the first key of a projects mapping (the registry files here have one key)
FirstKey(projects) == CHOOSE k \in DOMAIN projects : TRUE

\* the command was started from the command line with neither the
\* OPS_PROJECT_KEY environment variable nor the --projectKey flag
NoProjectKeyGiven ==
  /\ given.via = "cli"
  /\ "OPS_PROJECT_KEY" \notin DOMAIN given.env
  /\ "projectKey" \notin DOMAIN given.flags

\* C29, as claimed: when neither the OPS_PROJECT_KEY environment variable nor
\* the --projectKey flag is given, the projectKey of the options the command
\* runs with is the first key of the projects mapping of the registry file.
C29_DefaultIsFirstRegistryKey ==
  FixedRun /\ NoProjectKeyGiven /\ HasProjectsMapping(RegistryAt(heap[OptionsRef])) =>
    Get(heap[OptionsRef], "projectKey") = Str(FirstKey(ProjectsIn(RegistryAt(heap[OptionsRef]))))

\* C26: no step of the two fixed sequences removes or changes a field of the
\* options object: every field it had when the run was started is present
\* with the same value at every moment of the run and when the run returns.
C26_OptionsFieldsKept ==
  FixedRun =>
    \A f \in DOMAIN given.options :
      /\ f \in DOMAIN heap[OptionsRef]
      /\ heap[OptionsRef][f] = given.options[f]

\* setup has returned after all its steps, the options having three fields
C26_Witness ==
  /\ cmd = "setup"
  /\ Returned
  /\ StepNames = SetupOrder
  /\ DOMAIN given.options = {"directory", "env", "projectKey"}
  /\ heap[OptionsRef] = given.options

\* the three sub-steps of the deployment-project-link step of invocation i
\* have returned, each with error = false
FirebaseSubStepsSucceeded(i) ==
  /\ Len(ProducedBy(i)) = 3
  /\ \A k \in 1..3 : ~ProducedBy(i)[k].value.error

\* C30: when its three sub-steps succeed, configureFirebase returns exactly
\* {error: false, message: 'Firebase has been configured.'}: the email of the
\* login and the messages of the sub-steps are not in it.
C30_FirebaseSuccessExact ==
  \A i \in 1..Len(invoked) :
    IsStep(i, "stepConfigureFirebaseProject") /\ Settled(i) /\ FirebaseSubStepsSucceeded(i) =>
      st[i].got.value = [error |-> FALSE, message |-> "Firebase has been configured."]

\* configureFirebase has returned after a login that gave an email
C30_Witness ==
  \E i \in 1..Len(invoked) :
    /\ IsStep(i, "stepConfigureFirebaseProject")
    /\ Settled(i)
    /\ FirebaseSubStepsSucceeded(i)
    /\ ProducedBy(i)[2].value.email = "dev@example.com"
    /\ DOMAIN st[i].got.value = {"error", "message"}

\* C27, as claimed: a Result is immutable once returned. The object a step
\* function got from the provider or configure function it awaited is still
\* as it was when the step got it, and the object a step returned to the
\* runner is still as it was when the step returned it: no field was added,
\* changed or removed.
C27_ResultImmutableOnceReturned ==
  /\ \A i \in 1..Len(invoked) :
       "got" \in DOMAIN st[i] => heap[st[i].got.ref] = st[i].got.value
  /\ \A k \in 1..Len(returned) : heap[returned[k].ref] = returned[k].value

\* the reads of the registry file in this run
RegistryReads == SelectSeq(calls, LAMBDA c : c.provider = "readFile")

\* C28: in one run of setup or setupFirebase the registry file is read at
\* most once, and no operation of the system ever changes the file.
C28_RegistryReadOnceNeverWritten ==
  /\ [](FixedRun => Len(RegistryReads) <= 1)
  /\ [][file' = file]_vars

\* a run has returned after reading the registry file once
C28_Witness ==
  /\ FixedRun
  /\ Returned
  /\ Len(RegistryReads) = 1
  /\ RegistryReads[1].arg = "/app/.firebaserc"
  /\ file # Absent
  /\ Len(invoked) >= 3

\* the command is being run for the second time in this process
SecondRun == first # <<>> /\ pc # "cli"

\* the run has settled: its promise resolved or rejected
RunSettled == pc \in {"resolved", "rejected"}

\* what the run returned, by value
ResultValue == IF result = <<>> THEN <<>> ELSE <<heap[result[1]]>>

\* the Results the steps returned, by value, in order
ReturnedValues == [k \in 1..Len(returned) |-> returned[k].value]

\* C25: when setup or setupFirebase is run a second time in the same process
\* with a fresh options object equal to the first, and the providers answer
\* as they did in the first run, the second run invokes the same steps and
\* makes the same provider calls in the same order, and settles as the first
\* did: with an equal Result, or with a rejection if the first run rejected.
C25_NoCrossRunState ==
  SecondRun /\ IsPrefix(answers, first[1].answers) =>
    /\ IsPrefix(StepNames, first[1].invoked)
    /\ IsPrefix(calls, first[1].calls)
    /\ IsPrefix(ReturnedValues, first[1].returned)
    /\ RunSettled =>
         /\ StepNames = first[1].invoked
         /\ calls = first[1].calls
         /\ answers = first[1].answers
         /\ ResultValue = first[1].result
         /\ pc = first[1].settlement

\* setup has returned for the second time, after the same five steps
C25_Witness ==
  /\ SecondRun
  /\ cmd = "setup"
  /\ pc = "resolved"
  /\ answers = first[1].answers
  /\ StepNames = SetupOrder
  /\ Len(calls) >= 7
  /\ ResultValue = first[1].result
  /\ ResultValue # <<>>

\* so far the providers have answered in this run as in the first, but for
\* the text the subprocesses printed
SameStatuses ==
  /\ Len(answers) <= Len(first[1].answers)
  /\ \A k \in 1..Len(answers) :
       /\ answers[k].provider = first[1].answers[k].provider
       /\ SameBehaviour(first[1].answers[k], answers[k].outcome)

\* the messages of the functions that run an external command: fixed text
\* around, for gcloud, the project name read from the registry
StaticMessages(fn, options) ==
  CASE fn = "setGoogleCloudProject" ->
         { "Failed to set the Google Cloud project to \"" \o RegistryName(options) \o "\".",
           "The Google Cloud project has been set to \"" \o RegistryName(options) \o "\"." }
    [] fn = "configureFirebaseWebFrameworks" ->
         { "The Firebase webframeworks feature could not be enabled.",
           "The Firebase webframeworks feature has been enabled." }
    [] fn = "configureFirebaseProject" ->
         { "The Firebase project could not be configured.",
           "The Firebase project has been configured." }
    [] fn = "setFontAwesomeRegistry" ->
         { "Failed to set the Font Awesome registry.",
           "The Font Awesome registry has been set." }
    [] fn = "setFontAwesomeToken" ->
         { "Failed to set the Font Awesome token.",
           "The Font Awesome token has been set." }

CommandFunctions ==
  {"configureFirebaseWebFrameworks", "configureFirebaseProject",
   "setFontAwesomeRegistry", "setFontAwesomeToken"}

\* C24: the Result of a step that runs an external command depends on how
\* the command ended, not on what it printed. A second run whose subprocesses
\* end as in the first (the same event, the same exit code) but print other
\* text has its steps return Results equal to the first run's and settles
\* with an equal Result; and the message of every Result made from the answer
\* of a command is the fixed text of the function that ran it.
C24_ResultIgnoresOutputText ==
  /\ SecondRun /\ SameStatuses =>
       /\ IsPrefix(ReturnedValues, first[1].returned)
       /\ RunSettled => ResultValue = first[1].result /\ pc = first[1].settlement
  /\ \A k \in 1..Len(produced) :
       produced[k].fn \in CommandFunctions =>
         produced[k].value.message
           \in StaticMessages(produced[k].fn, OptionsOf(produced[k].by))
  /\ \A i \in 1..Len(invoked) :
       IsStep(i, "stepConfigureGoogle") /\ Settled(i) /\ AnswersTo(i, "exec") # <<>> =>
         st[i].got.value.message \in StaticMessages("setGoogleCloudProject", OptionsOf(i))

\* the second run has returned the Result of the first, the gcloud command
\* having written another text to stderr than in the first run
C24_Witness ==
  /\ SecondRun
  /\ pc = "resolved"
  /\ SameStatuses
  /\ \E k \in 1..Len(answers) :
       /\ answers[k].provider = "exec"
       /\ answers[k].outcome.event = "stderr"
       /\ answers[k].outcome.stderr # first[1].answers[k].outcome.stderr
  /\ ResultValue = first[1].result
  /\ ResultValue # <<>>

\* an exec call has spawned its subprocess
Spawned == proc # <<>>

\* C22, as claimed: every subprocess exec spawns, whatever the options of the
\* call (any stdio setting, the default or an injected spawn function), is
\* started with the signal of the module's abort controller in its spawn
\* options.
C22_AlwaysSpawnedWithSignal ==
  Spawned =>
    /\ "signal" \in DOMAIN proc[1].spawned
    /\ proc[1].spawned.signal = ModuleSignal

\* the events that settle the promise of exec
Deciding(e) == e.on \in {"stderr", "exit", "close"}

\* the place of the first deciding event among the events so far, if any
FirstDeciding(events) ==
  LET ks == {k \in 1..Len(events) : Deciding(events[k])}
  IN  IF ks = {} THEN <<>> ELSE <<Least(ks)>>

\* what the subprocess wrote to stdout in its first n events
RECURSIVE StdoutIn(_, _)
StdoutIn(events, n) ==
  IF n = 0 THEN ""
  ELSE StdoutIn(events, n - 1) \o (IF events[n].on = "stdout" THEN events[n].data ELSE "")

\* C23: exec resolves as soon as the subprocess writes data to stderr, with
\* code 1, the stderr text received so far and the stdout accumulated till
\* then, whether or not the subprocess goes on; if an exit or close event
\* comes before any stderr data, exec resolves at that event with the event's
\* code, the accumulated stdout and an empty stderr; before the first of
\* these events the promise is pending, and later events do not change what
\* it resolved with.
C23_ResolvesOnFirstDecidingEvent ==
  Spawned /\ HasStreams(proc[1].options, proc[1].spawned) =>
    LET events == proc[1].events
        d == FirstDeciding(events)
    IN  IF d = <<>>
          THEN proc[1].settled = <<>>
          ELSE LET e == events[d[1]]
                   stdout == StdoutIn(events, d[1])
               IN  proc[1].settled =
                     << [kind |-> "resolved",
                         response |->
                           IF e.on = "stderr"
                             THEN [code |-> Num(1), stderr |-> e.data, stdout |-> stdout]
                             ELSE [code |-> e.code, stderr |-> "", stdout |-> stdout]] >>

\* the subprocess printed, wrote to stderr and then exited with 0: the
\* promise holds the response of the stderr event
C23_Witness ==
  /\ Spawned
  /\ Len(proc[1].events) = 3
  /\ proc[1].events[1].on = "stdout"
  /\ proc[1].events[2].on = "stderr"
  /\ proc[1].events[3] = [on |-> "exit", code |-> Num(0)]
  /\ proc[1].settled =
       <<[kind |-> "resolved",
          response |-> [code |-> Num(1), stderr |-> "err 1", stdout |-> "out 1"]]>>

----------------------------------------------------------------------------
(* Properties of the functions and of the runs *)

\* the value is an object that is not an array and has at least one key
IsNonEmptyPlainObject(v) == v.type = "object" /\ DOMAIN v.val # {}

\* C31, as claimed: validateParsedFirebaserc returns error = false only for a
\* non-empty object that is not an array; for undefined, null, values that
\* are not objects, arrays and the empty object it returns error = true with
\* the message 'The .firebaserc file contains an empty or invalid object.'.
C31_ParsedFirebasercValidOnlyForObject ==
  \A n \in 1..Len(validations) :
    \A j \in 1..Len(validations[n].invoked) :
      LET v == validations[n].validators[validations[n].invoked[j]]
          r == InvokeValidator(v)
      IN  v.fn = "validateParsedFirebaserc" =>
            /\ ~r.error <=> IsNonEmptyPlainObject(v.arg)
            /\ r.error =>
                 r.message = "The .firebaserc file contains an empty or invalid object."

\* C32: configureNodeEnv(env) writes env to NODE_ENV and reads it back. For a
\* string env, NODE_ENV holds env afterwards and the Result is {error: false};
\* in every case error = true is returned exactly when the value read back
\* differs from the requested env.
C32_NodeEnvSetAndConfirmed ==
  \A i \in 1..Len(invoked) :
    IsStep(i, "stepConfigureNodeEnv") /\ Settled(i) =>
      LET env == Get(OptionsOf(i), "env")
      IN  /\ ResultOf(i).error <=> ~StrictEqual(nodeEnv, env)
          /\ env.type = "string" =>
               /\ nodeEnv = env
               /\ ResultOf(i) = [error |-> FALSE]

\* NODE_ENV went from production to development, with {error: false}
C32_Witness ==
  \E i \in 1..Len(invoked) :
    /\ IsStep(i, "stepConfigureNodeEnv")
    /\ Settled(i)
    /\ Get(OptionsOf(i), "env") = Str("development")
    /\ nodeEnv = Str("development")
    /\ ResultOf(i) = [error |-> FALSE]

\* the names of the steps left in the array
StepsLeft == [j \in 1..Len(steps) |-> steps[j].fn]

\* C33: when runSteps has returned after invoking k of the N steps of the
\* array it was called with, it invoked the first k in order and the array
\* holds the other N-k in their original order; after a run that returned
\* error = false the array is empty.
C33_ArrayHoldsTheStepsNotInvoked ==
  Returned =>
    LET k == Len(invoked)
    IN  /\ cmd = "setup" =>
             /\ StepNames = SubSeq(SetupOrder, 1, k)
             /\ StepsLeft = SubSeq(SetupOrder, k + 1, Len(SetupOrder))
        /\ cmd = "firebase" =>
             /\ StepNames = SubSeq(FirebaseOrder, 1, k)
             /\ StepsLeft = SubSeq(FirebaseOrder, k + 1, Len(FirebaseOrder))
        /\ cmd = "runSteps" =>
             /\ \A j \in 1..k : invoked[j].step = Step("step", j)
             /\ \A j \in 1..Len(steps) : steps[j] = Step("step", k + j)
        /\ ~heap[result[1]].error => steps = <<>>

\* runSteps has returned the failing Result of the second of three steps
C33_Witness ==
  /\ cmd = "runSteps"
  /\ Returned
  /\ Len(invoked) = 2
  /\ heap[result[1]].error
  /\ steps = <<Step("step", 3)>>

\* runSteps has been called and its promise has not settled
Running == pc \in {"shift", "await"}

\* a step did not answer with a Result: its promise rejected
SomeStepRejected == \E i \in 1..Len(invoked) : Rejected(i)

\* the most steps a run of the command invokes: the length of its array
MostInvocations ==
  CASE cmd = "setup" -> Len(SetupOrder)
    [] cmd = "firebase" -> Len(FirebaseOrder)
    [] OTHER -> Len(invoked) + Len(steps)

C35_SettledOnceByFirstEvent ==
  /\ [](Spawned /\ HasStreams(proc[1].options, proc[1].spawned) =>
          /\ proc[1].settled # <<>> <=> FirstDeciding(proc[1].events) # <<>>
          /\ proc[1].settled # <<>> =>
               /\ proc[1].settled[1].kind = "resolved"
               /\ proc[1].settled[1].response.stdout
                    = StdoutIn(proc[1].events, FirstDeciding(proc[1].events)[1]))
  /\ [][Spawned /\ proc[1].settled # <<>> => proc'[1].settled = proc[1].settled]_vars

\* the subprocess exited with 0, then printed and wrote to stderr: the
\* promise holds the response of the exit, with nothing of what came later
C35_Witness ==
  /\ Spawned
  /\ Len(proc[1].events) = 3
  /\ proc[1].events[1] = [on |-> "exit", code |-> Num(0)]
  /\ proc[1].events[2].on = "stdout"
  /\ proc[1].events[3].on = "stderr"
  /\ proc[1].stdout = "out 1"
  /\ proc[1].settled =
       <<[kind |-> "resolved", response |-> [code |-> Num(0), stderr |-> "", stdout |-> ""]]>>

\* the subprocess of the j-th provider call, an exec call, has ended: exec
\* answered the call at the exit or close event of the subprocess (at a
\* stderr-data event exec answers while the subprocess may still run)
SubprocessEnded(j) ==
  /\ j <= Len(answers)
  /\ answers[j].provider = "exec"
  /\ answers[j].outcome.event \in {"exit", "close"}

\* C36: in a run of setup or setupFirebase, when a subprocess is spawned
\* every subprocess spawned earlier in the run has ended, although exec
\* answers at the first stderr data, before the subprocess ends; the commands
\* of configureFirebase and configureFontAwesome are among these.
C36_NoTwoSubprocessesAtOnce ==
  FixedRun =>
    \A k \in 1..Len(calls) :
      calls[k].provider = "exec" =>
        \A j \in 1..(k - 1) : calls[j].provider = "exec" => SubprocessEnded(j)

\* setup has spawned its five subprocesses, the last of which wrote to
\* stderr: exec answered while that one may still run
C36_Witness ==
  /\ cmd = "setup"
  /\ Len(SelectSeq(calls, LAMBDA c : c.provider = "exec")) = 5
  /\ Len(answers) = Len(calls)
  /\ answers[Len(answers)].outcome.event = "stderr"
  /\ Returned

\* the commands that select the project of the Firebase CLI
FirebaseUseCommands ==
  {"firebase use " \o JsString(k) : k \in ProjectKeys \cup {Undefined}}

\* the gcloud project-selection command of the run for the options
SelectionCommand(options) ==
  "gcloud config set project " \o RegistryName(options) \o " --no-user-output-enabled"

\* C37: in a run of setup or setupFirebase, `firebase use <projectKey>` is
\* executed only if projectKey is a non-empty string that the projects
\* mapping of the registry file maps to a non-empty string, and only after
\* the gcloud project-selection command of the same run exited with code 0;
\* the key in the command is the projectKey of the options.
C37_FirebaseUseOnlyAfterValidSelection ==
  FixedRun =>
    \A k \in 1..Len(calls) :
      calls[k].provider = "exec" /\ calls[k].arg \in FirebaseUseCommands =>
        /\ LocalInputValid(heap[OptionsRef])
        /\ calls[k].arg = "firebase use " \o Get(heap[OptionsRef], "projectKey").val
        /\ \E j \in 1..(k - 1) :
             /\ calls[j].provider = "exec"
             /\ calls[j].arg = SelectionCommand(heap[OptionsRef])
             /\ ExitedWithZero(answers[j])

\* started with OPS_PROJECT_KEY=staging over a registry that maps staging,
\* the run has executed `firebase use staging`
C37_Witness ==
  /\ FixedRun
  /\ given.via = "cli"
  /\ \E k \in 1..Len(calls) : calls[k].arg = "firebase use staging"
  /\ \E j \in 1..Len(calls) :
       calls[j].arg = "gcloud config set project acme-staging --no-user-output-enabled"

\* the k-th answer is that of a subprocess that ended otherwise than with
\* exit code 0: with another code, or by a signal (a null code)
EndedBadly(k) ==
  /\ answers[k].provider = "exec"
  /\ answers[k].outcome.event \in {"exit", "close"}
  /\ answers[k].outcome.code # Num(0)

\* C38: in a run of setup or setupFirebase, when a subprocess ends with
\* anything but exit code 0 (a null code after a signal included), the step
\* that ran it returns error = true and the sequence stops: no further
\* command is run, no later step is invoked, and what the run returns has
\* error = true.
C38_BadExitFailsTheStep ==
  FixedRun =>
    \A k \in 1..Len(answers) :
      EndedBadly(k) =>
        /\ Settled(answers[k].by)
        /\ ResultOf(answers[k].by).error
        /\ k = Len(calls)
        /\ answers[k].by = Len(invoked)
        /\ pc \in {"resolved", "exited"} => heap[result[1]].error

\* `firebase use` was ended by a signal: the exit event carried null, the
\* deployment-project-link step failed and the run returned its Result
C38_Witness ==
  /\ FixedRun
  /\ Returned
  /\ Len(answers) >= 5
  /\ answers[Len(answers)].outcome = [event |-> "exit", code |-> Null, stdout |-> ""]
  /\ LastStep = "stepConfigureFirebaseProject"
  /\ heap[result[1]].error
  /\ heap[result[1]].message = "The Firebase project could not be configured."

\* the text t occurs in the text s
Contains(s, t) ==
  \E k \in 1..(Len(s) - Len(t) + 1) : SubSeq(s, k, k + Len(t) - 1) = t

\* the tokens entered at the prompt in this run
TokensEntered ==
  { answers[k].outcome.response.token :
      k \in { j \in 1..Len(answers) :
                /\ answers[j].provider = "prompt"
                /\ answers[j].outcome.kind = "resolve"
                /\ "token" \in DOMAIN answers[j].outcome.response
                /\ answers[j].outcome.response.token # "" } }

\* the providers answered in this run as in the first, except that the user
\* may have entered another token
DifferOnlyInToken ==
  /\ Len(answers) = Len(first[1].answers)
  /\ \A k \in 1..Len(answers) :
       \/ answers[k] = first[1].answers[k]
       \/ /\ answers[k].by = first[1].answers[k].by
          /\ answers[k].provider = first[1].answers[k].provider
          /\ TokenEntered(first[1].answers[k], answers[k].outcome)

====
